---- MODULE Spec2Model ----
(***************************************************************************)
(* Reference extraction of packages/latex/src/latex.ts: the BibTeX parser, *)
(* the \bibitem parser, the value normalizer and extractReferences.        *)
(*                                                                         *)
(* Strings are sequences of one-character strings.  The regular            *)
(* expressions of the source are written as syntax trees, node for node,   *)
(* and matched by a backtracking matcher with the priorities of            *)
(* RegExp.prototype.exec (leftmost start, alternatives left to right,      *)
(* greedy quantifiers longest first, lazy quantifiers shortest first).     *)
(***************************************************************************)
EXTENDS Integers, Sequences, FiniteSets, TLC

\* ------------------------------------------------------------ characters

LowerSeq ==
    <<"a", "b", "c", "d", "e", "f", "g", "h", "i", "j", "k", "l", "m",
      "n", "o", "p", "q", "r", "s", "t", "u", "v", "w", "x", "y", "z">>

UpperSeq ==
    <<"A", "B", "C", "D", "E", "F", "G", "H", "I", "J", "K", "L", "M",
      "N", "O", "P", "Q", "R", "S", "T", "U", "V", "W", "X", "Y", "Z">>

Range(f) == {f[k] : k \in DOMAIN f}

Lower == Range(LowerSeq)

Upper == Range(UpperSeq)

Digit == {"0", "1", "2", "3", "4", "5", "6", "7", "8", "9"}

\* \w
WordChar == Lower \cup Upper \cup Digit \cup {"_"}

\* \s  (and the characters String.prototype.trim removes)
Space == {" ", "\t", "\n", "\r", "\f"}

\* String.prototype.toLowerCase on one character
LowerChar(c) ==
    IF c \in Upper THEN LowerSeq[CHOOSE k \in 1..26 : UpperSeq[k] = c] ELSE c

UpperChar(c) ==
    IF c \in Lower THEN UpperSeq[CHOOSE k \in 1..26 : LowerSeq[k] = c] ELSE c

toLowerCase(s) == [k \in 1..Len(s) |-> LowerChar(s[k])]

\* ---------------------------------------------------- regular expressions
\* Syntax trees.  A node is a tuple whose first element names its kind.

Chr(S) == <<"set", S>>

NotChr(S) == <<"nset", S>>

Cat(rs) == <<"cat", rs>>

Alt(rs) == <<"alt", rs>>

Star(r) == <<"rep", r, TRUE>>

LazyStar(r) == <<"rep", r, FALSE>>

Plus(r) == <<"cat", <<r, <<"rep", r, TRUE>>>>>>

LazyPlus(r) == <<"cat", <<r, <<"rep", r, FALSE>>>>>>

Opt(r) == <<"opt", r>>

Cap(n, r) == <<"cap", n, r>>

Look(r) == <<"la", r>>

Eoi == <<"eoi">>

\* \b
WordB == <<"wb">>

Lit(s) == <<"cat", [k \in 1..Len(s) |-> <<"set", {s[k]}>>]>>

\* a literal under the i flag
LitI(s) ==
    <<"cat", [k \in 1..Len(s) |-> <<"set", {LowerChar(s[k]), UpperChar(s[k])}>>]>>

\* The capture groups inside a node: a quantifier clears them when an
\* iteration starts.
RECURSIVE CapsOf(_)
CapsOf(r) ==
    CASE r[1] \in {"cat", "alt"} ->
           UNION {CapsOf(r[2][k]) : k \in 1..Len(r[2])}
      [] r[1] \in {"rep", "opt", "la"} -> CapsOf(r[2])
      [] r[1] = "cap" -> {r[2]} \cup CapsOf(r[3])
      [] OTHER -> {}

\* A tree compiled to the instructions of a backtracking machine; jump
\* targets are relative to the instruction.  split a b: go on at a, and
\* at b when that fails.
RECURSIVE Compile(_)
RECURSIVE CompileCat(_)
RECURSIVE CompileAlt(_)
Compile(r) ==
    CASE r[1] = "cat" -> CompileCat(r[2])
      [] r[1] = "alt" -> CompileAlt(r[2])
      [] r[1] = "rep" ->
           LET a == Compile(r[2])
               c == IF CapsOf(r[2]) = {} THEN <<>>
                    ELSE <<<<"clr", CapsOf(r[2])>>>>
               n == Len(a) + Len(c)
           IN  (IF r[3] THEN <<<<"split", 1, n + 2>>>>
                        ELSE <<<<"split", n + 2, 1>>>>)
               \o c \o a \o <<<<"jmp", 0 - (n + 1)>>>>
      [] r[1] = "opt" ->
           LET a == Compile(r[2])
           IN  <<<<"split", 1, Len(a) + 1>>>> \o a
      [] r[1] = "cap" ->
           <<<<"save", r[2], 1>>>> \o Compile(r[3]) \o <<<<"save", r[2], 2>>>>
      [] r[1] = "la" ->
           <<<<"la">>>> \o Compile(r[2]) \o <<<<"laend">>>>
      [] OTHER -> <<r>>

CompileCat(rs) ==
    IF rs = <<>> THEN <<>> ELSE Compile(Head(rs)) \o CompileCat(Tail(rs))

CompileAlt(rs) ==
    IF Len(rs) = 1 THEN Compile(rs[1])
    ELSE LET a == Compile(rs[1])
             b == CompileAlt(Tail(rs))
         IN  <<<<"split", 1, Len(a) + 2>>>> \o a
             \o <<<<"jmp", Len(b) + 1>>>> \o b

\* A pattern: its program and its number of capture groups.
Regex(r, ng) == [prog |-> Compile(r) \o <<<<"match">>>>, ng |-> ng]

NoCaps(ng) == [n \in 1..ng |-> <<0, 0>>]

\* One step of the machine on string s.  The stack holds the choice points
\* ("alt"), the start of a lookahead ("bar") and, at the bottom, the next
\* start position to try ("start").
Backtrack(st) == [st EXCEPT !.fail = TRUE]

Pop(s, R, st) ==
    LET f == st.stk[Len(st.stk)]
        below == SubSeq(st.stk, 1, Len(st.stk) - 1)
    IN  CASE f[1] = "alt" ->
               [st EXCEPT !.fail = FALSE, !.pc = f[2], !.end = f[3],
                          !.caps = f[4], !.stk = below]
          [] f[1] = "bar" -> [st EXCEPT !.stk = below]
          [] f[1] = "start" ->
               IF f[2] > Len(s) + 1
               THEN [st EXCEPT !.done = TRUE, !.ok = FALSE, !.stk = <<>>]
               ELSE [st EXCEPT !.fail = FALSE, !.pc = 1, !.end = f[2],
                               !.start = f[2], !.caps = NoCaps(R.ng),
                               !.stk = <<<<"start", f[2] + 1>>>>]

Exec1(s, R, st) ==
    LET ins == R.prog[st.pc]
        next == [st EXCEPT !.pc = st.pc + 1]
        here == st.end <= Len(s)
    IN  CASE ins[1] = "set" ->
               IF here /\ s[st.end] \in ins[2]
               THEN [next EXCEPT !.end = st.end + 1] ELSE Backtrack(st)
          [] ins[1] = "nset" ->
               IF here /\ s[st.end] \notin ins[2]
               THEN [next EXCEPT !.end = st.end + 1] ELSE Backtrack(st)
          [] ins[1] = "split" ->
               [st EXCEPT !.pc = st.pc + ins[2],
                          !.stk = Append(st.stk,
                              <<"alt", st.pc + ins[3], st.end, st.caps>>)]
          [] ins[1] = "jmp" -> [st EXCEPT !.pc = st.pc + ins[2]]
          [] ins[1] = "save" ->
               [next EXCEPT !.caps[ins[2]] =
                   IF ins[3] = 1 THEN <<st.end, 0>> ELSE <<@[1], st.end>>]
          [] ins[1] = "clr" ->
               [next EXCEPT !.caps =
                   [n \in DOMAIN st.caps |->
                       IF n \in ins[2] THEN <<0, 0>> ELSE st.caps[n]]]
          [] ins[1] = "la" ->
               [next EXCEPT !.stk = Append(st.stk, <<"bar", st.end>>)]
          [] ins[1] = "laend" ->
               LET b == CHOOSE k \in 1..Len(st.stk) :
                            /\ st.stk[k][1] = "bar"
                            /\ \A j \in (k + 1)..Len(st.stk) :
                                   st.stk[j][1] # "bar"
               IN  [next EXCEPT !.end = st.stk[b][2],
                                !.stk = SubSeq(st.stk, 1, b - 1)]
          [] ins[1] = "eoi" ->
               IF st.end = Len(s) + 1 THEN next ELSE Backtrack(st)
          [] ins[1] = "wb" ->
               LET before == st.end > 1 /\ s[st.end - 1] \in WordChar
                   after == here /\ s[st.end] \in WordChar
               IN  IF before # after THEN next ELSE Backtrack(st)
          [] ins[1] = "match" -> [st EXCEPT !.done = TRUE, !.ok = TRUE]

Step(s, R, st) == IF st.fail THEN Pop(s, R, st) ELSE Exec1(s, R, st)

\* 2^k steps, or fewer when the machine stops.
RECURSIVE Run(_, _, _, _)
Run(s, R, st, k) ==
    IF st.done THEN st
    ELSE IF k = 0 THEN Step(s, R, st)
    ELSE Run(s, R, Run(s, R, st, k - 1), k - 1)

\* The machine stops within 2^Fuel steps on every string of the model.
Fuel == 16

\* what exec returns when it returns null
NoMatch == [ok |-> FALSE]

\* RegExp.prototype.exec from position `from` (1-based): the leftmost match
\* at or after `from`, or no match.  The match is the machine where it
\* stopped: `ok` says whether there is one, the text matched is
\* s[start..end-1], and a capture group that did not take part is <<0, 0>>.
Exec(R, s, from) ==
    IF from > Len(s) + 1 THEN NoMatch
    ELSE CHOOSE m \in {Run(s, R, [pc |-> 1, end |-> from, start |-> from,
                                  caps |-> NoCaps(R.ng), fail |-> TRUE,
                                  done |-> FALSE, ok |-> FALSE,
                                  stk |-> <<<<"start", from>>>>], Fuel)} :
             m.done

\* Group n of a match took part.
Took(m, n) == m.caps[n][1] # 0

\* m[n]: the text of group n of a match, the whole match for n = 0
Group(s, m, n) ==
    IF n = 0 THEN SubSeq(s, m.start, m.end - 1)
    ELSE SubSeq(s, m.caps[n][1], m.caps[n][2] - 1)

\* . with the s flag
AnyChar == <<"nset", {}>>

RECURSIVE Flat(_)
Flat(lists) == IF lists = <<>> THEN <<>> ELSE Head(lists) \o Flat(Tail(lists))

\* What String.prototype.replace puts in the place of match m.  A
\* replacement is a string (`text`), in which the character "$1" stands for
\* the text of group 1, or a function (`fn`) of the text that matched.
Replacement(by, s, m) ==
    IF "fn" \in DOMAIN by THEN by.fn[Group(s, m, 0)]
    ELSE Flat([k \in 1..Len(by.text) |->
                  IF by.text[k] = "$1" THEN Group(s, m, 1)
                  ELSE <<by.text[k]>>])

\* s.replace(R, by) for a g pattern, from position pos on, m being the
\* first match at or after pos: the matches are visited left to right, each
\* search starting where the last match ended (one character further after
\* an empty match).
RECURSIVE ReplaceFrom(_, _, _, _, _)
ReplaceFrom(R, s, by, pos, m) ==
    IF ~m.ok THEN SubSeq(s, pos, Len(s))
    ELSE SubSeq(s, pos, m.start - 1) \o Replacement(by, s, m)
         \o ReplaceFrom(R, s, by, m.end,
                Exec(R, s, IF m.end = m.start THEN m.end + 1 ELSE m.end))

Replace(R, s, by) == ReplaceFrom(R, s, by, 1, Exec(R, s, 1))

\* String.prototype.trim
trim(s) ==
    IF \A k \in 1..Len(s) : s[k] \in Space THEN <<>>
    ELSE LET lo == CHOOSE k \in 1..Len(s) :
                       s[k] \notin Space /\ \A j \in 1..(k - 1) : s[j] \in Space
             hi == CHOOSE k \in 1..Len(s) :
                       s[k] \notin Space
                       /\ \A j \in (k + 1)..Len(s) : s[j] \in Space
         IN  SubSeq(s, lo, hi)

\* /\s+/g
whitespaceRun == Regex(Plus(Chr(Space)), 0)

\* s.replace(/\s+/g, " ").trim()
collapse(s) == trim(Replace(whitespaceRun, s, [text |-> <<" ">>]))

\* ------------------------------------------------------------- objects
\* A record of the program is a function from property names to values.
\* The property names the code writes itself:
PropName ==
    [id |-> <<"i", "d">>, type |-> <<"t", "y", "p", "e">>, raw_bibtex |-> <<"r", "a", "w", "_", "b", "i", "b", "t", "e", "x">>,
     label |-> <<"l", "a", "b", "e", "l">>, raw_bibitem |-> <<"r", "a", "w", "_", "b", "i", "b", "i", "t", "e", "m">>,
     raw_text |-> <<"r", "a", "w", "_", "t", "e", "x", "t">>, author |-> <<"a", "u", "t", "h", "o", "r">>, title |-> <<"t", "i", "t", "l", "e">>,
     journal |-> <<"j", "o", "u", "r", "n", "a", "l">>, booktitle |-> <<"b", "o", "o", "k", "t", "i", "t", "l", "e">>,
     publisher |-> <<"p", "u", "b", "l", "i", "s", "h", "e", "r">>, year |-> <<"y", "e", "a", "r">>, volume |-> <<"v", "o", "l", "u", "m", "e">>,
     number |-> <<"n", "u", "m", "b", "e", "r">>, pages |-> <<"p", "a", "g", "e", "s">>, doi |-> <<"d", "o", "i">>,
     url |-> <<"u", "r", "l">>, arxiv |-> <<"a", "r", "x", "i", "v">>, address |-> <<"a", "d", "d", "r", "e", "s", "s">>,
     proto |-> <<"_", "_", "p", "r", "o", "t", "o", "_", "_">>]

\* obj[k] = v that leaves a property the object already has as it is
ObjSetKeepFirst(obj, k, v) ==
    IF k = PropName.proto \/ k \in DOMAIN obj THEN obj
    ELSE [n \in DOMAIN obj \cup {k} |-> IF n = k THEN v ELSE obj[n]]

\* obj[k] = v on an ordinary object.  The name __proto__ is the accessor
\* of Object.prototype: assigning to it creates no own property.
ObjSet(obj, k, v) ==
    IF k = PropName.proto THEN obj
    ELSE [n \in DOMAIN obj \cup {k} |-> IF n = k THEN v ELSE obj[n]]

\* ------------------------------------------------------ cleanBibtexValue
\* /\\&/g
ampPattern == Regex(Lit(<<"\\", "&">>), 0)

\* /\\\"[aouiAOUI]/g
umlautPattern ==
    Regex(Cat(<<Lit(<<"\\", "\"">>),
                Chr({"a", "o", "u", "i", "A", "O", "U", "I"})>>), 0)

\* /\\'{[eEaAoOuUiI]}/g
acutePattern ==
    Regex(Cat(<<Lit(<<"\\", "'", "{">>),
                Chr({"e", "E", "a", "A", "o", "O", "u", "U", "i", "I"}),
                Chr({"}"})>>), 0)

\* /\$([^$]+)\$/g
mathPattern ==
    Regex(Cat(<<Chr({"$"}), Cap(1, Plus(NotChr({"$"}))), Chr({"$"})>>), 1)

\* /{([^{}]*)}/g
bracePattern ==
    Regex(Cat(<<Chr({"{"}), Cap(1, Star(NotChr({"{", "}"}))), Chr({"}"})>>), 1)

\* The replacers of lines 456-459 and 463-474, as functions of the text that
\* matched.  The accented letters are single characters of the model,
\* written with their entity names.
umlautOf ==
    [t \in {<<"\\", "\"", c>> : c \in {"a", "o", "u", "i", "A", "O", "U", "I"}} |->
        LET char == LowerChar(t[3])
        IN  <<IF char = "a" THEN "&auml;" ELSE IF char = "o" THEN "&ouml;"
              ELSE IF char = "u" THEN "&uuml;" ELSE "&iuml;">>]

acuteOf ==
    [t \in {<<"\\", "'", "{", c, "}">> :
               c \in {"e", "E", "a", "A", "o", "O", "u", "U", "i", "I"}} |->
        LET char == LowerChar(t[4])
        IN  <<IF char = "e" THEN "&eacute;" ELSE IF char = "a" THEN "&aacute;"
              ELSE IF char = "o" THEN "&oacute;"
              ELSE IF char = "u" THEN "&uacute;" ELSE "&iacute;">>]

\* cleanBibtexValue, were the braces removed first and the escapes after
cleanBibtexValueBracesFirst(value) ==
    IF value = <<>> THEN value
    ELSE collapse(
           Replace(mathPattern,
             Replace(acutePattern,
               Replace(umlautPattern,
                 Replace(ampPattern,
                   Replace(bracePattern, value, [text |-> <<"$1">>]),
                   [text |-> <<"&">>]),
                 [fn |-> umlautOf]),
               [fn |-> acuteOf]),
             [text |-> <<"$1">>]))

\* the replacements in the order of the list, then the whitespace
cleanBibtexValue(value) ==
    IF value = <<>> THEN value
    ELSE collapse(
           Replace(bracePattern,
             Replace(mathPattern,
               Replace(acutePattern,
                 Replace(umlautPattern,
                   Replace(ampPattern, value, [text |-> <<"&">>]),
                   [fn |-> umlautOf]),
                 [fn |-> acuteOf]),
               [text |-> <<"$1">>]),
             [text |-> <<"$1">>]))

\* ---------------------------------------------------- parseBibtexContent
\* /@(\w+)\s*{\s*([^,]+),\s*([^@]+?)(?=\s*@|\s*\Z)/gs
\* Without the u flag \Z is an identity escape: it matches the letter Z.
bibtexEntryPattern ==
    Regex(Cat(<<Chr({"@"}), Cap(1, Plus(Chr(WordChar))), Star(Chr(Space)),
                Chr({"{"}), Star(Chr(Space)),
                Cap(2, Plus(NotChr({","}))), Chr({","}), Star(Chr(Space)),
                Cap(3, LazyPlus(NotChr({"@"}))),
                Look(Alt(<<Cat(<<Star(Chr(Space)), Chr({"@"})>>),
                           Cat(<<Star(Chr(Space)), Chr({"Z"})>>)>>))>>), 3)

\* (\w+)\s*=\s*   with the name in group n
fieldHead(n) ==
    Cat(<<Cap(n, Plus(Chr(WordChar))), Star(Chr(Space)), Chr({"="}),
          Star(Chr(Space))>>)

\* /(\w+)\s*=\s*{((?:[^{}]|{(?:[^{}]|{[^{}]*})*})*)}
\*  |(\w+)\s*=\s*"([^"]*)"
\*  |(\w+)\s*=\s*(\d+(?:\.\d+)?)
\*  |(\w+)\s*=\s*([^,\s{}"'\n]+)/gs
bibtexFieldPattern ==
    LET nb == NotChr({"{", "}"})
        inner == Cat(<<Chr({"{"}), Star(nb), Chr({"}"})>>)
        mid == Cat(<<Chr({"{"}), Star(Alt(<<nb, inner>>)), Chr({"}"})>>)
    IN  Regex(Alt(<<
            Cat(<<fieldHead(1), Chr({"{"}),
                  Cap(2, Star(Alt(<<nb, mid>>))), Chr({"}"})>>),
            Cat(<<fieldHead(3), Chr({"\""}),
                  Cap(4, Star(NotChr({"\""}))), Chr({"\""})>>),
            Cat(<<fieldHead(5),
                  Cap(6, Cat(<<Plus(Chr(Digit)),
                               Opt(Cat(<<Chr({"."}), Plus(Chr(Digit))>>))>>))>>),
            Cat(<<fieldHead(7),
                  Cap(8, Plus(NotChr(Space \cup
                                 {",", "{", "}", "\"", "'"})))>>)>>), 8)

\* the field loop of one entry (lines 411-436), fieldMatch being what
\* bibtexFieldPattern.exec(entryContent) returned last
RECURSIVE bibtexFields(_, _, _)
bibtexFields(entryContent, fieldMatch, entry) ==
    LET g(n) == Group(entryContent, fieldMatch, n)
        some(n) == Took(fieldMatch, n) /\ g(n) # <<>>
    IN  IF ~fieldMatch.ok THEN entry
        ELSE bibtexFields(entryContent,
               Exec(bibtexFieldPattern, entryContent, fieldMatch.end),
               IF some(1)
               THEN ObjSet(entry, toLowerCase(g(1)), cleanBibtexValue(g(2)))
               ELSE IF some(3)
               THEN ObjSet(entry, toLowerCase(g(3)), cleanBibtexValue(g(4)))
               ELSE IF some(5) THEN ObjSet(entry, toLowerCase(g(5)), g(6))
               ELSE IF some(7) THEN ObjSet(entry, toLowerCase(g(7)), g(8))
               ELSE entry)

\* the entry loop (lines 400-440), match being what
\* bibtexEntryPattern.exec(content) returned last
RECURSIVE bibtexEntries(_, _)
bibtexEntries(content, match) ==
    LET entryType == toLowerCase(Group(content, match, 1))
        entryId == trim(Group(content, match, 2))
        entryContent == trim(Group(content, match, 3))
    IN  IF ~match.ok THEN <<>>
        ELSE <<ObjSet(bibtexFields(entryContent,
                          Exec(bibtexFieldPattern, entryContent, 1),
                          [n \in {PropName.id, PropName.type} |->
                              IF n = PropName.id THEN entryId ELSE entryType]),
                      PropName.raw_bibtex,
                      <<"@">> \o entryType \o <<"{">> \o entryId
                      \o <<",", " ">> \o entryContent \o <<"}">>)>>
             \o bibtexEntries(content,
                              Exec(bibtexEntryPattern, content, match.end))

parseBibtexContent(content) ==
    bibtexEntries(content, Exec(bibtexEntryPattern, content, 1))

\* --------------------------------------------------- parseBibitemContent
\* The value of a property that was assigned undefined.
undefined == <<"undefined">>

\* /\\newblock\s*/gi
newblockPattern == Regex(Cat(<<LitI(<<"\\", "n", "e", "w", "b", "l", "o", "c", "k">>), Star(Chr(Space))>>), 0)

\* /\r?\n+/
lineBreakPattern == Regex(Cat(<<Opt(Chr({"\r"})), Plus(Chr({"\n"}))>>), 0)

\* s.split(R): the pieces of s between the matches of R, from position pos
\* on, m being the first match at or after pos
RECURSIVE splitFrom(_, _, _, _)
splitFrom(s, R, pos, m) ==
    IF ~m.ok THEN <<SubSeq(s, pos, Len(s))>>
    ELSE <<SubSeq(s, pos, m.start - 1)>>
         \o splitFrom(s, R, m.end,
                Exec(R, s, IF m.end = m.start THEN m.end + 1 ELSE m.end))

split(s, R) == splitFrom(s, R, 1, Exec(R, s, 1))

\* ls.map(l => l.trim()).filter(Boolean)
RECURSIVE trimmedLines(_)
trimmedLines(ls) ==
    IF ls = <<>> THEN <<>>
    ELSE (IF trim(Head(ls)) = <<>> THEN <<>> ELSE <<trim(Head(ls))>>)
         \o trimmedLines(Tail(ls))

\* s.replace(/\.+$/, ""): every trailing period removed
RECURSIVE stripDots(_)
stripDots(s) ==
    IF Len(s) > 0 /\ s[Len(s)] = "." THEN stripDots(SubSeq(s, 1, Len(s) - 1))
    ELSE s

\* s.replace(/\.$/, "")
stripDot(s) ==
    IF Len(s) > 0 /\ s[Len(s)] = "." THEN SubSeq(s, 1, Len(s) - 1) ELSE s

NotBrace == NotChr({"}"})

\* [^,\.]
NotCommaDot == NotChr({",", "."})

journalPatterns ==
    <<  \* /\\textit{([^}]+)}/
        Regex(Cat(<<Lit(<<"\\", "t", "e", "x", "t", "i", "t", "{">>), Cap(1, Plus(NotBrace)), Chr({"}"})>>), 1),
        \* /\\emph{([^}]+)}/
        Regex(Cat(<<Lit(<<"\\", "e", "m", "p", "h", "{">>), Cap(1, Plus(NotBrace)), Chr({"}"})>>), 1),
        \* /{\\em\s+([^}]+)}/
        Regex(Cat(<<Lit(<<"{", "\\", "e", "m">>), Plus(Chr(Space)), Cap(1, Plus(NotBrace)),
                    Chr({"}"})>>), 1),
        \* /\\em\s+([^,\.]+)/
        Regex(Cat(<<Lit(<<"\\", "e", "m">>), Plus(Chr(Space)),
                    Cap(1, Plus(NotCommaDot))>>), 1),
        \* /In\s+{\\\w+\s+([^}]+)}/
        Regex(Cat(<<Lit(<<"I", "n">>), Plus(Chr(Space)), Lit(<<"{", "\\">>),
                    Plus(Chr(WordChar)), Plus(Chr(Space)),
                    Cap(1, Plus(NotBrace)), Chr({"}"})>>), 1),
        \* /In\s+\\textit{([^}]+)}/
        Regex(Cat(<<Lit(<<"I", "n">>), Plus(Chr(Space)), Lit(<<"\\", "t", "e", "x", "t", "i", "t", "{">>),
                    Cap(1, Plus(NotBrace)), Chr({"}"})>>), 1),
        \* /In\s*["']([^"']+)["']/
        Regex(Cat(<<Lit(<<"I", "n">>), Star(Chr(Space)), Chr({"\"", "'"}),
                    Cap(1, Plus(NotChr({"\"", "'"}))),
                    Chr({"\"", "'"})>>), 1),
        \* /(?:In |in ){\\it ([^}]+)}/
        Regex(Cat(<<Alt(<<Lit(<<"I", "n", " ">>), Lit(<<"i", "n", " ">>)>>), Lit(<<"{", "\\", "i", "t", " ">>),
                    Cap(1, Plus(NotBrace)), Chr({"}"})>>), 1),
        \* /(?:\.)\s+([A-Z][^,\.]*(?:Journal|Proceedings|Transactions
        \*            |Review|Letters)[^,\.]*)/
        Regex(Cat(<<Chr({"."}), Plus(Chr(Space)),
                    Cap(1, Cat(<<Chr(Upper), Star(NotCommaDot),
                        Alt(<<Lit(<<"J", "o", "u", "r", "n", "a", "l">>), Lit(<<"P", "r", "o", "c", "e", "e", "d", "i", "n", "g", "s">>),
                              Lit(<<"T", "r", "a", "n", "s", "a", "c", "t", "i", "o", "n", "s">>), Lit(<<"R", "e", "v", "i", "e", "w">>),
                              Lit(<<"L", "e", "t", "t", "e", "r", "s">>)>>),
                        Star(NotCommaDot)>>))>>), 1) >>

booktitlePatterns ==
    <<  \* /In\s+(?:proceedings\s+of|proc\.\s+of|Proc\.\s+of)\s+the\s+
        \*  ([^,\.]+)/i
        Regex(Cat(<<LitI(<<"I", "n">>), Plus(Chr(Space)),
                    Alt(<<Cat(<<LitI(<<"p", "r", "o", "c", "e", "e", "d", "i", "n", "g", "s">>), Plus(Chr(Space)),
                                LitI(<<"o", "f">>)>>),
                          Cat(<<LitI(<<"p", "r", "o", "c", ".">>), Plus(Chr(Space)),
                                LitI(<<"o", "f">>)>>),
                          Cat(<<LitI(<<"P", "r", "o", "c", ".">>), Plus(Chr(Space)),
                                LitI(<<"o", "f">>)>>)>>),
                    Plus(Chr(Space)), LitI(<<"t", "h", "e">>), Plus(Chr(Space)),
                    Cap(1, Plus(NotCommaDot))>>), 1),
        \* /In\s+([^,\.]*(?:Conference|Symposium|Workshop)[^,\.]*)/i
        Regex(Cat(<<LitI(<<"I", "n">>), Plus(Chr(Space)),
                    Cap(1, Cat(<<Star(NotCommaDot),
                        Alt(<<LitI(<<"C", "o", "n", "f", "e", "r", "e", "n", "c", "e">>), LitI(<<"S", "y", "m", "p", "o", "s", "i", "u", "m">>),
                              LitI(<<"W", "o", "r", "k", "s", "h", "o", "p">>)>>),
                        Star(NotCommaDot)>>))>>), 1) >>

\* \s*[:=]\s*
colonOrEquals ==
    Cat(<<Star(Chr(Space)), Chr({":", "="}), Star(Chr(Space))>>)

\* \s*[:=]?\s*
optColonOrEquals ==
    Cat(<<Star(Chr(Space)), Opt(Chr({":", "="})), Star(Chr(Space))>>)

publisherPatterns ==
    <<  \* /(?:publisher|Publisher)\s*[:=]\s*([^,\.]+)/
        Regex(Cat(<<Alt(<<Lit(<<"p", "u", "b", "l", "i", "s", "h", "e", "r">>), Lit(<<"P", "u", "b", "l", "i", "s", "h", "e", "r">>)>>),
                    colonOrEquals, Cap(1, Plus(NotCommaDot))>>), 1),
        \* /([^,\.]+?(?:Press|Publishers|Publishing))/
        Regex(Cap(1, Cat(<<LazyPlus(NotCommaDot),
                           Alt(<<Lit(<<"P", "r", "e", "s", "s">>), Lit(<<"P", "u", "b", "l", "i", "s", "h", "e", "r", "s">>),
                                 Lit(<<"P", "u", "b", "l", "i", "s", "h", "i", "n", "g">>)>>)>>)), 1) >>

\* /\b(19|20)\d{2}\b/
yearPattern ==
    Regex(Cat(<<WordB, Cap(1, Alt(<<Lit(<<"1", "9">>), Lit(<<"2", "0">>)>>)),
                Chr(Digit), Chr(Digit), WordB>>), 1)

\* /(?:volume|Vol\.)\s*[:=]?\s*(\d+)/i
volumePattern ==
    Regex(Cat(<<Alt(<<LitI(<<"v", "o", "l", "u", "m", "e">>), LitI(<<"V", "o", "l", ".">>)>>), optColonOrEquals,
                Cap(1, Plus(Chr(Digit)))>>), 1)

\* /(?:number|No\.|issue)\s*[:=]?\s*(\d+)/i
numberPattern ==
    Regex(Cat(<<Alt(<<LitI(<<"n", "u", "m", "b", "e", "r">>), LitI(<<"N", "o", ".">>), LitI(<<"i", "s", "s", "u", "e">>)>>),
                optColonOrEquals, Cap(1, Plus(Chr(Digit)))>>), 1)

\* The en dash and the em dash are single characters of the model.
Dashes == {"&ndash;", "&mdash;"}

\* /(?:pages|pp\.)\s*[:=]?\s*([\d\-<en dash><em dash>]+)/i
pagesPattern ==
    Regex(Cat(<<Alt(<<LitI(<<"p", "a", "g", "e", "s">>), LitI(<<"p", "p", ".">>)>>), optColonOrEquals,
                Cap(1, Plus(Chr(Digit \cup {"-"} \cup Dashes)))>>), 1)

\* /[<en dash><em dash>]/g
dashPattern == Regex(Chr(Dashes), 0)

\* [^\s,]
NotSpaceComma == NotChr(Space \cup {","})

\* [^\s,}]
NotSpaceCommaBrace == NotChr(Space \cup {",", "}"})

\* https?:\/\/
httpPrefix == Cat(<<Lit(<<"h", "t", "t", "p">>), Opt(Chr({"s"})), Lit(<<":", "/", "/">>)>>)

\* the same under the i flag
httpPrefixI == Cat(<<LitI(<<"h", "t", "t", "p">>), Opt(Chr({"s", "S"})), Lit(<<":", "/", "/">>)>>)

doiPatterns ==
    <<  \* /doi\s*[:=]\s*([^\s,]+)/i
        Regex(Cat(<<LitI(<<"d", "o", "i">>), colonOrEquals,
                    Cap(1, Plus(NotSpaceComma))>>), 1),
        \* /https?:\/\/(?:dx\.)?doi\.org\/([^\s,]+)/i
        Regex(Cat(<<httpPrefixI, Opt(LitI(<<"d", "x", ".">>)), LitI(<<"d", "o", "i", ".", "o", "r", "g", "/">>),
                    Cap(1, Plus(NotSpaceComma))>>), 1) >>

urlPatterns ==
    <<  \* /\\url{([^}]+)}/
        Regex(Cat(<<Lit(<<"\\", "u", "r", "l", "{">>), Cap(1, Plus(NotBrace)), Chr({"}"})>>), 1),
        \* /https?:\/\/[^\s,}]+/   (the whole match is used)
        Regex(Cap(1, Cat(<<httpPrefix, Plus(NotSpaceCommaBrace)>>)), 1) >>

arxivPatterns ==
    <<  \* /arXiv:([^\s,}]+)/i
        Regex(Cat(<<LitI(<<"a", "r", "X", "i", "v", ":">>), Cap(1, Plus(NotSpaceCommaBrace))>>), 1),
        \* /https?:\/\/arxiv\.org\/abs\/([^\s,}]+)/i
        Regex(Cat(<<httpPrefixI, LitI(<<"a", "r", "x", "i", "v", ".", "o", "r", "g", "/", "a", "b", "s", "/">>),
                    Cap(1, Plus(NotSpaceCommaBrace))>>), 1) >>

addrPatterns ==
    <<  \* /address\s*[:=]\s*([^,\.]+)/
        Regex(Cat(<<Lit(<<"a", "d", "d", "r", "e", "s", "s">>), colonOrEquals,
                    Cap(1, Plus(NotCommaDot))>>), 1),
        \* /([A-Z][a-zA-Z]+,\s+[A-Z]{2,})/
        Regex(Cap(1, Cat(<<Chr(Upper), Plus(Chr(Lower \cup Upper)),
                           Chr({","}), Plus(Chr(Space)), Chr(Upper),
                           Plus(Chr(Upper))>>)), 1),
        \* /([A-Z][a-zA-Z]+,\s+[A-Z][a-zA-Z]+)/
        Regex(Cap(1, Cat(<<Chr(Upper), Plus(Chr(Lower \cup Upper)),
                           Chr({","}), Plus(Chr(Space)), Chr(Upper),
                           Plus(Chr(Lower \cup Upper))>>)), 1) >>

\* /book/i: the word alone, in a group or not
bookPatternNoGroup == Regex(LitI(<<"b", "o", "o", "k">>), 0)

\* /\\textit{[^}]*book[^}]*/i
bookPattern ==
    Regex(Cat(<<LitI(<<"\\", "t", "e", "x", "t", "i", "t", "{">>), Star(NotBrace), LitI(<<"b", "o", "o", "k">>),
                Star(NotBrace)>>), 0)

\* group n of the pattern of ps whose match starts first in the text
earliestGroup(ps, n, text, k, m) ==
    LET ms == [j \in 1..Len(ps) |-> Exec(ps[j], text, 1)]
        hits == {j \in 1..Len(ps) : ms[j].ok}
        best == CHOOSE j \in hits :
                    \A i \in hits : \/ ms[j].start < ms[i].start
                                    \/ ms[j].start = ms[i].start /\ j <= i
    IN  IF hits = {} THEN <<>> ELSE <<Group(text, ms[best], n)>>

\* for (const p of ps) { const m = p.exec(text); if (m) { ...m[n]; break } }
\* and a.exec(text)?.[n] ?? b.exec(text)?.[n]: group n of the first pattern
\* of ps that matches text, in a list, which is empty when none matches.
\* m is the match of pattern k, the patterns before it did not match.
RECURSIVE firstGroup(_, _, _, _, _)
firstGroup(ps, n, text, k, m) ==
    IF m.ok THEN <<Group(text, m, n)>>
    ELSE IF k = Len(ps) THEN <<>>
    ELSE firstGroup(ps, n, text, k + 1, Exec(ps[k + 1], text, 1))

\* if (cond) fields.name = value
condField(cond, name, value) == IF cond THEN name :> value ELSE <<>>

\* if (m) fields.name = m[1].trim(), for the group list g of firstGroup
trimmedField(name, g) == IF g = <<>> THEN <<>> ELSE name :> trim(g[1])

\* fields.name = p.exec(text)?.[n]
fieldOrUndefined(name, g) == name :> (IF g = <<>> THEN undefined ELSE g[1])

\* the fields, were the test before the booktitle heuristics inverted
\* (booktitle looked for only when a journal was found)
bibitemFieldsInvertedTest(rawText, logicalLines, journal) ==
    LET noJournal == journal = <<>> \/ trim(journal[1]) = <<>>
        pg == firstGroup(<<pagesPattern>>, 1, rawText, 0, NoMatch)
    IN  (PropName.raw_text :> rawText)
        @@ condField(Len(logicalLines) > 0, PropName.author,
                     stripDot(logicalLines[1]))
        @@ condField(Len(logicalLines) > 1, PropName.title,
                     stripDot(logicalLines[2]))
        @@ trimmedField(PropName.journal, journal)
        @@ (IF ~noJournal
            THEN trimmedField(PropName.booktitle,
                     firstGroup(booktitlePatterns, 1, rawText, 0, NoMatch))
            ELSE <<>>)
        @@ trimmedField(PropName.publisher,
                        firstGroup(publisherPatterns, 1, rawText, 0, NoMatch))
        @@ fieldOrUndefined(PropName.year,
                            firstGroup(<<yearPattern>>, 0, rawText, 0, NoMatch))
        @@ fieldOrUndefined(PropName.volume,
                            firstGroup(<<volumePattern>>, 1, rawText, 0, NoMatch))
        @@ fieldOrUndefined(PropName.number,
                            firstGroup(<<numberPattern>>, 1, rawText, 0, NoMatch))
        @@ condField(pg # <<>>, PropName.pages,
                     Replace(dashPattern, pg[1], [text |-> <<"-">>]))
        @@ fieldOrUndefined(PropName.doi,
                            firstGroup(doiPatterns, 1, rawText, 0, NoMatch))
        @@ fieldOrUndefined(PropName.url,
                            firstGroup(urlPatterns, 1, rawText, 0, NoMatch))
        @@ fieldOrUndefined(PropName.arxiv,
                            firstGroup(arxivPatterns, 1, rawText, 0, NoMatch))
        @@ trimmedField(PropName.address,
                        firstGroup(addrPatterns, 1, rawText, 0, NoMatch))
        @@ condField(Exec(bookPattern, rawText, 1).ok /\ noJournal,
                     PropName.type, <<"b", "o", "o", "k">>)

\* lines 501-595: the fields, given rawText, logicalLines and the group list
\* of the loop over journalPatterns
bibitemFields(rawText, logicalLines, journal) ==
    LET noJournal == journal = <<>> \/ trim(journal[1]) = <<>>
        pg == firstGroup(<<pagesPattern>>, 1, rawText, 0, NoMatch)
    IN  (PropName.raw_text :> rawText)
        @@ condField(Len(logicalLines) > 0, PropName.author,
                     stripDot(logicalLines[1]))
        @@ condField(Len(logicalLines) > 1, PropName.title,
                     stripDot(logicalLines[2]))
        @@ trimmedField(PropName.journal, journal)
        @@ (IF noJournal
            THEN trimmedField(PropName.booktitle,
                     firstGroup(booktitlePatterns, 1, rawText, 0, NoMatch))
            ELSE <<>>)
        @@ trimmedField(PropName.publisher,
                        firstGroup(publisherPatterns, 1, rawText, 0, NoMatch))
        @@ fieldOrUndefined(PropName.year,
                            firstGroup(<<yearPattern>>, 0, rawText, 0, NoMatch))
        @@ fieldOrUndefined(PropName.volume,
                            firstGroup(<<volumePattern>>, 1, rawText, 0, NoMatch))
        @@ fieldOrUndefined(PropName.number,
                            firstGroup(<<numberPattern>>, 1, rawText, 0, NoMatch))
        @@ condField(pg # <<>>, PropName.pages,
                     Replace(dashPattern, pg[1], [text |-> <<"-">>]))
        @@ fieldOrUndefined(PropName.doi,
                            firstGroup(doiPatterns, 1, rawText, 0, NoMatch))
        @@ fieldOrUndefined(PropName.url,
                            firstGroup(urlPatterns, 1, rawText, 0, NoMatch))
        @@ fieldOrUndefined(PropName.arxiv,
                            firstGroup(arxivPatterns, 1, rawText, 0, NoMatch))
        @@ trimmedField(PropName.address,
                        firstGroup(addrPatterns, 1, rawText, 0, NoMatch))
        @@ condField(Exec(bookPattern, rawText, 1).ok /\ noJournal,
                     PropName.type, <<"b", "o", "o", "k">>)

parseBibitemContent(body) ==
    bibitemFields(
        collapse(body),
        trimmedLines(split(Replace(newblockPattern, body, [text |-> <<"\n">>]),
                           lineBreakPattern)),
        firstGroup(journalPatterns, 1, collapse(body), 0, NoMatch))

\* ----------------------------------------- parseLatexBibliographyContent
\* BIBITEM_PATTERN, were \end{thebibliography} not among the ends of a body
BIBITEM_PATTERN_NoEndMarker ==
    Regex(Cat(<<Lit(<<"\\", "b", "i", "b", "i", "t", "e", "m">>),
                Opt(Cat(<<Chr({"["}), Cap(1, LazyStar(AnyChar)),
                          Chr({"]"})>>)),
                Chr({"{"}), Cap(2, LazyStar(AnyChar)), Chr({"}"}),
                Cap(3, LazyStar(AnyChar)),
                Look(Alt(<<Lit(<<"\\", "b", "i", "b", "i", "t", "e", "m">>),
                           Eoi>>))>>), 3)

\* /\\bibitem(?:\[(.*?)])?\{(.*?)\}(.*?)
\*  (?=\\bibitem|\\end\{thebibliography\}|$)/gs
\* A module-level pattern with the g flag: its lastIndex outlives a call.
BIBITEM_PATTERN ==
    Regex(Cat(<<Lit(<<"\\", "b", "i", "b", "i", "t", "e", "m">>),
                Opt(Cat(<<Chr({"["}), Cap(1, LazyStar(AnyChar)),
                          Chr({"]"})>>)),
                Chr({"{"}), Cap(2, LazyStar(AnyChar)), Chr({"}"}),
                Cap(3, LazyStar(AnyChar)),
                Look(Alt(<<Lit(<<"\\", "b", "i", "b", "i", "t", "e", "m">>), Lit(<<"\\", "e", "n", "d", "{", "t", "h", "e", "b", "i", "b", "l", "i", "o", "g", "r", "a", "p", "h", "y", "}">>),
                           Eoi>>))>>), 3)

\* the loop of lines 604-616, m being what BIBITEM_PATTERN.exec(content)
\* returned last
RECURSIVE bibitemEntries(_, _)
bibitemEntries(content, m) ==
    LET optLabel == IF Took(m, 1) THEN Group(content, m, 1) ELSE <<>>
        citeKey == Group(content, m, 2)
        body == Group(content, m, 3)
        raw == IF optLabel # <<>>
               THEN <<"\\", "b", "i", "b", "i", "t", "e", "m", "[">> \o optLabel \o <<"]", " ", "{">> \o citeKey
                    \o <<"}", " ">> \o trim(body)
               ELSE <<"\\", "b", "i", "b", "i", "t", "e", "m", "{">> \o citeKey \o <<"}", " ">> \o trim(body)
    IN  IF ~m.ok THEN <<>>
        ELSE <<ObjSet(parseBibitemContent(trim(body))
                      @@ condField(optLabel # <<>>, PropName.label,
                                   trim(optLabel))
                      @@ (PropName.id :> trim(citeKey))
                      @@ (PropName.type :> <<"b", "i", "b", "i", "t", "e", "m">>),
                      PropName.raw_bibitem, raw)>>
             \o bibitemEntries(content, Exec(BIBITEM_PATTERN, content, m.end))

\* parseLatexBibliographyContent, were its loop left after the first
\* \bibitem: BIBITEM_PATTERN.lastIndex stays where that match ended
parseLatexBibliographyContentOnce(content, li) ==
    LET m == Exec(BIBITEM_PATTERN, content, li + 1)
    IN  IF m.ok
        THEN [entries |-> SubSeq(bibitemEntries(content, m), 1, 1),
              lastIndex |-> m.end - 1]
        ELSE [entries |-> <<>>, lastIndex |-> 0]

\* The call with BIBITEM_PATTERN.lastIndex at li (0-based, as in the
\* program): the entries pushed and the lastIndex the loop leaves behind,
\* which is 0, since the loop ends when exec returns null.
parseLatexBibliographyContent(content, li) ==
    [entries |-> bibitemEntries(content,
                                Exec(BIBITEM_PATTERN, content, li + 1)),
     lastIndex |-> 0]

\* ------------------------------------------------------------ findFiles
\* A directory entry: a file (its content, and whether it can be read) or a
\* directory (its entries in listing order, and whether it can be listed).
\* the extensions extractReferences asks findFiles for
BibExt == <<".", "b", "i", "b">>

TexExt == <<".", "t", "e", "x">>

File(name, ok, content) ==
    [name |-> name, isDir |-> FALSE, ok |-> ok, content |-> content,
     entries |-> <<>>]

Dir(name, ok, entries) ==
    [name |-> name, isDir |-> TRUE, ok |-> ok, content |-> <<>>,
     entries |-> entries]

\* name.endsWith(extension)
endsWith(name, extension) ==
    /\ Len(name) >= Len(extension)
    /\ SubSeq(name, Len(name) - Len(extension) + 1, Len(name)) = extension

\* fs.readdir(directory): it throws when the directory is missing or cannot
\* be listed
readdir(dir) ==
    IF dir.isDir /\ dir.ok THEN [threw |-> FALSE, entries |-> dir.entries]
    ELSE [threw |-> TRUE, entries |-> <<>>]

\* findFiles without its catch: a failed listing, of the directory or of
\* one below it, rejects the call
RECURSIVE findFilesNoCatch(_, _, _)
findFilesNoCatch(dir, path, extension) ==
    LET listing == readdir(dir)
        entries == listing.entries
        below == [k \in 1..Len(entries) |->
                    LET entry == entries[k]
                        fullPath == Append(path, entry.name)
                    IN  IF entry.isDir
                        THEN findFilesNoCatch(entry, fullPath, extension)
                        ELSE IF endsWith(entry.name, extension)
                        THEN [threw |-> FALSE, files |-> <<fullPath>>]
                        ELSE [threw |-> FALSE, files |-> <<>>]]
    IN  IF listing.threw \/ \E k \in 1..Len(entries) : below[k].threw
        THEN [threw |-> TRUE, files |-> <<>>]
        ELSE [threw |-> FALSE,
              files |-> Flat([k \in 1..Len(entries) |-> below[k].files])]

\* findFiles(directory, extension): the paths below `dir` (each the sequence
\* of names from `path` down) of the files whose name ends with the
\* extension; the catch turns a failed listing into the empty list.
RECURSIVE findFiles(_, _, _)
findFiles(dir, path, extension) ==
    LET listing == readdir(dir)
        entries == listing.entries
        files == [k \in 1..Len(entries) |->
                    LET entry == entries[k]
                        fullPath == Append(path, entry.name)
                    IN  IF entry.isDir
                        THEN findFiles(entry, fullPath, extension).files
                        ELSE IF endsWith(entry.name, extension)
                        THEN <<fullPath>>
                        ELSE <<>>]
    IN  IF listing.threw THEN [threw |-> FALSE, files |-> <<>>]
        ELSE [threw |-> FALSE, files |-> Flat(files)]

\* the entry of `dir` that `path` leads to
RECURSIVE Lookup(_, _)
Lookup(dir, path) ==
    LET k == CHOOSE k \in 1..Len(dir.entries) :
                 dir.entries[k].name = Head(path)
    IN  IF Len(path) = 1 THEN dir.entries[k]
        ELSE Lookup(dir.entries[k], Tail(path))

\* The directory a path leads to, the empty path being the directory the
\* first call was given.
dirAt(root, path) == IF path = <<>> THEN root ELSE Lookup(root, path)

\* entries.map(async (entry) => ...): one promise per entry.  That of a
\* file is settled at once, with the path or with nothing; that of a
\* directory is pending until the findFiles call on it resolves.
slotsOf(entries, path, extension) ==
    [k \in 1..Len(entries) |->
        IF entries[k].isDir THEN [pending |-> TRUE, files |-> <<>>]
        ELSE [pending |-> FALSE,
              files |-> IF endsWith(entries[k].name, extension)
                        THEN <<Append(path, entries[k].name)>> ELSE <<>>]]

\* the settled promise's value, were it put in the first free place
fillFirstPending(values, index, files) ==
    LET first == CHOOSE k \in 1..Len(values) :
                     /\ values[k].pending
                     /\ \A j \in 1..(k - 1) : ~values[j].pending
    IN  [values EXCEPT ![first] = [pending |-> FALSE, files |-> files]]

\* Promise.all: the value of the promise at `index` is put at that index
fill(values, index, files) ==
    [values EXCEPT ![index] = [pending |-> FALSE, files |-> files]]

\* the names of the subdirectories among the entries
subdirNames(entries) ==
    {entries[k].name : k \in {j \in 1..Len(entries) : entries[j].isDir}}

\* The findFiles call on `path` resolves with `files`: they fill its place
\* in the Promise.all of the call on the parent directory, which resolves
\* in turn, with files.flat(), once no place is pending.  rs is the calls
\* under way; the result says whether the first call has resolved.
RECURSIVE resolve(_, _, _, _)
resolve(root, rs, path, files) ==
    IF path = <<>> THEN [reads |-> rs, done |-> TRUE, files |-> files]
    ELSE LET parent == SubSeq(path, 1, Len(path) - 1)
             siblings == dirAt(root, parent).entries
             index == CHOOSE k \in 1..Len(siblings) :
                          siblings[k].name = path[Len(path)]
             values == fill(rs[parent].values, index, files)
             rs1 == [rs EXCEPT ![parent].values = values]
         IN  IF \E k \in 1..Len(values) : values[k].pending
             THEN [reads |-> rs1, done |-> FALSE, files |-> <<>>]
             ELSE resolve(root, rs1, parent,
                          Flat([k \in 1..Len(values) |-> values[k].files]))

\* fs.readdir of the directory at `path` has settled with `listing`: the
\* catch resolves the call with [] when it threw; otherwise the callbacks of
\* map start a findFiles call for every subdirectory, and the call resolves
\* at once when there is none.
readdirSettled(root, rs, path, listing, extension) ==
    LET slots == slotsOf(listing.entries, path, extension)
        started == {Append(path, n) : n \in subdirNames(listing.entries)}
        rs1 == [q \in DOMAIN rs \cup started |->
                   IF q = path THEN [reading |-> FALSE, values |-> slots]
                   ELSE IF q \in started
                   THEN [reading |-> TRUE, values |-> <<>>]
                   ELSE rs[q]]
    IN  IF listing.threw
        THEN resolve(root, [rs EXCEPT ![path].reading = FALSE], path, <<>>)
        ELSE IF started # {}
        THEN [reads |-> rs1, done |-> FALSE, files |-> <<>>]
        ELSE resolve(root, rs1, path,
                     Flat([k \in 1..Len(slots) |-> slots[k].files]))

\* fs.readFile(filePath, "utf-8")
readFile(root, filePath) ==
    LET f == Lookup(root, filePath)
    IN  IF f.ok THEN [threw |-> FALSE, content |-> f.content]
        ELSE [threw |-> TRUE, content |-> <<>>]

\* content.includes(sub)
includes(content, sub) ==
    \E k \in 1..(Len(content) - Len(sub) + 1) :
        SubSeq(content, k, k + Len(sub) - 1) = sub

\* ------------------------------------------------------- the entriesMap
\* entriesMap is an ordinary object: `val` holds its own properties and
\* `keys` their names in creation order.
EmptyMap == [keys |-> <<>>, val |-> <<>>]

\* entriesMap[entry.id] = entry, were the assignment skipped for an id
\* the map already holds
mapSetKeepFirst(map, entry) ==
    LET id == entry[PropName.id]
    IN  IF id = PropName.proto \/ id \in DOMAIN map.val THEN map
        ELSE [keys |-> Append(map.keys, id),
              val |-> ObjSet(map.val, id, entry)]

\* entriesMap[entry.id] = entry
mapSet(map, entry) ==
    LET id == entry[PropName.id]
    IN  [keys |-> IF id = PropName.proto \/ id \in DOMAIN map.val
                  THEN map.keys ELSE Append(map.keys, id),
         val |-> ObjSet(map.val, id, entry)]

\* for (const entry of entries) entriesMap[entry.id] = entry
RECURSIVE mapSetAll(_, _)
mapSetAll(map, entries) ==
    IF entries = <<>> THEN map
    ELSE mapSetAll(mapSet(map, Head(entries)), Tail(entries))

DigitSeq == <<"0", "1", "2", "3", "4", "5", "6", "7", "8", "9">>

digitOf(c) == (CHOOSE d \in 1..10 : DigitSeq[d] = c) - 1

\* a < b for two canonical decimal numerals
numericLess(a, b) ==
    \/ Len(a) < Len(b)
    \/ /\ Len(a) = Len(b)
       /\ \E j \in 1..Len(a) :
              /\ SubSeq(a, 1, j - 1) = SubSeq(b, 1, j - 1)
              /\ digitOf(a[j]) < digitOf(b[j])

\* the largest array index, 2^32 - 2
MaxArrayIndex == <<"4", "2", "9", "4", "9", "6", "7", "2", "9", "4">>

\* A property name that is an array index: the canonical decimal numeral of
\* an integer up to 2^32 - 2.
isArrayIndex(k) ==
    /\ k # <<>>
    /\ \A j \in 1..Len(k) : k[j] \in Digit
    /\ (k[1] # "0" \/ Len(k) = 1)
    /\ ~numericLess(MaxArrayIndex, k)

\* Object.values(entriesMap): the properties named by array indices first,
\* in ascending numeric order, then the others in creation order.
ObjectValues(map) ==
    LET indices == SortSeq(SelectSeq(map.keys, isArrayIndex),
                           numericLess)
        names == SelectSeq(map.keys, LAMBDA k : ~isArrayIndex(k))
        order == indices \o names
    IN  [k \in 1..Len(order) |-> map.val[order[k]]]

\* --------------------------------------------------------------- inputs
\* The paper directories of the model: at most MaxFiles files holding at
\* most MaxEntries bibliography entries in all.
MaxFiles == 2

MaxEntries == 2

\* citation keys: a name, two array indices whose numeric and creation
\* orders can differ, and the accessor name __proto__
Ids == {<<"b">>, <<"2">>, <<"1", "0">>, PropName.proto}

Stems == <<"a", "b", "c", "d">>

DigitTags == <<"1", "2", "3", "4">>

\* the sequences of n keys, and of at most n keys
RECURSIVE IdSeqsOfLen(_)
IdSeqsOfLen(n) ==
    IF n = 0 THEN {<<>>}
    ELSE {Append(q, id) : q \in IdSeqsOfLen(n - 1), id \in Ids}

IdSeqs(n) == UNION {IdSeqsOfLen(j) : j \in 0..n}

\* what a file of the directory can be: a readable .bib or .tex file with
\* j entries, and for j = 0 also an unreadable one or a file of another kind
FileKinds(j) ==
    {[kind |-> k, ok |-> TRUE, ids |-> q] :
        k \in {"bib", "tex"}, q \in IdSeqsOfLen(j)}
    \cup (IF j > 0 THEN {}
          ELSE {[kind |-> k, ok |-> FALSE, ids |-> <<>>] : k \in {"bib", "tex"}}
               \cup {[kind |-> "txt", ok |-> TRUE, ids |-> <<>>]})

\* the lists of at most n files with at most `budget` entries in all
RECURSIVE FileLists(_, _)
FileLists(n, budget) ==
    IF n = 0 THEN {<<>>}
    ELSE {<<>>} \cup
         UNION {{<<f>> \o rest : f \in FileKinds(j),
                                 rest \in FileLists(n - 1, budget - j)} :
                j \in 0..budget}

\* The text of a .bib file with one entry per key; the title of an entry
\* names the file and the position, so that no two entries of a directory
\* are equal.  The file ends with an @ line, which ends the last entry.
RECURSIVE BibText(_, _, _)
BibText(stem, ids, j) ==
    IF j > Len(ids) THEN <<"@", "c", "o", "m", "m", "e", "n", "t">>
    ELSE <<"@", "a", "{">> \o ids[j] \o <<",", "t", "i", "t", "l", "e", "=", "{">>
         \o <<stem, DigitTags[j]>> \o <<"}", "}">>
         \o <<"\n">> \o BibText(stem, ids, j + 1)

\* The text of a .tex file with one \bibitem per key.
RECURSIVE TexText(_, _, _)
TexText(stem, ids, j) ==
    IF j > Len(ids) THEN <<"\\", "e", "n", "d">>
    ELSE <<"\\", "b", "i", "b", "i", "t", "e", "m", "{">> \o ids[j] \o <<"}", " ">> \o <<stem, DigitTags[j]>> \o <<"\n">>
         \o TexText(stem, ids, j + 1)

MakeFile(f, k) ==
    CASE f.kind = "bib" ->
           File(<<Stems[k]>> \o BibExt, f.ok, BibText(Stems[k], f.ids, 1))
      [] f.kind = "tex" ->
           File(<<Stems[k]>> \o TexExt, f.ok, TexText(Stems[k], f.ids, 1))
      [] OTHER -> File(<<Stems[k]>> \o <<".", "t", "x", "t">>, TRUE, <<"n", "o", "t", "e", "s">>)

\* the k-th file of a directory, for each kind of file (built once)
AllFiles ==
    [k \in 1..MaxFiles |->
        [f \in UNION {FileKinds(j) : j \in 0..MaxEntries} |-> MakeFile(f, k)]]

FileOf(f, k) == AllFiles[k][f]

\* The directory of a file list: all files in the directory itself, or the
\* last one in a subdirectory that can or cannot be listed, or a directory
\* that does not exist.
Shapes == {"flat", "nested", "unlistable", "missing"}

Tree(fl, shape) ==
    LET files == [k \in 1..Len(fl) |-> FileOf(fl[k], k)]
        n == Len(fl)
    IN  CASE shape = "flat" -> Dir(<<"p", "a", "p", "e", "r">>, TRUE, files)
          [] shape = "missing" -> Dir(<<"p", "a", "p", "e", "r">>, FALSE, <<>>)
          [] OTHER ->
               Dir(<<"p", "a", "p", "e", "r">>, TRUE,
                   Append(SubSeq(files, 1, n - 1),
                          Dir(<<"s", "u", "b">>, shape = "nested", <<files[n]>>)))

\* the directory of the specification's first scenario
ScenarioBib ==
    <<"@", "a", "r", "t", "i", "c", "l", "e", "{", "d", "o", "e", "2", "0", "2", "0", ",", " ", "a", "u", "t", "h", "o", "r", " ", "=", " ", "{", "J", "o", "h", "n", " ", "D", "o", "e", "}", ",", " ", "t", "i", "t", "l", "e", " ", "=", " ", "{", "A", " ", "S", "t", "u", "d", "y", "}", ",", " ", "y", "e", "a", "r", " ", "=", " ", "{", "2", "0", "2", "0", "}", "}">>

ScenarioBibDir == Dir(<<"p", "a", "p", "e", "r">>, TRUE, <<File(<<"r", "e", "f", "s", ".", "b", "i", "b">>, TRUE, ScenarioBib)>>)

\* the directory of the specification's second scenario: one .tex file
\* with a thebibliography environment, and no .bib file
ScenarioTex ==
    <<"\\", "b", "e", "g", "i", "n", "{", "t", "h", "e", "b", "i", "b", "l", "i", "o", "g", "r", "a", "p", "h", "y", "}", "{", "9", "}", "\\", "b", "i", "b", "i", "t", "e", "m", "{", "l", "e", "e", "2", "0", "1", "9", "}", " ", "J", ".", " ", "L", "e", "e", ".", " ", "D", "e", "e", "p", " ", "N", "e", "t", "w", "o", "r", "k", "s", ".", " ", "\\", "n", "e", "w", "b", "l", "o", "c", "k", " ", "I", "n", " ", "P", "r", "o", "c", "e", "e", "d", "i", "n", "g", "s", " ", "o", "f", " ", "t", "h", "e", " ", "I", "n", "t", "e", "r", "n", "a", "t", "i", "o", "n", "a", "l", " ", "C", "o", "n", "f", "e", "r", "e", "n", "c", "e", " ", "o", "n", " ", "L", "e", "a", "r", "n", "i", "n", "g", ".", " ", "2", "0", "1", "9", ".", "\\", "e", "n", "d", "{", "t", "h", "e", "b", "i", "b", "l", "i", "o", "g", "r", "a", "p", "h", "y", "}">>

ScenarioTexDir == Dir(<<"p", "a", "p", "e", "r">>, TRUE, <<File(<<"r", "e", "f", "s", ".", "t", "e", "x">>, TRUE, ScenarioTex)>>)

Trees ==
    {Tree(q[1], q[2]) :
        q \in {r \in FileLists(MaxFiles, MaxEntries)
                        \X {"flat", "nested", "unlistable"} :
                  r[1] # <<>> \/ r[2] = "flat"}}
    \cup {Tree(<<>>, "missing"), ScenarioBibDir, ScenarioTexDir}

\* The contents given to the parsers alone: at most MaxBibFrags, or
\* MaxTexFrags, pieces put one after the other.
MaxBibFrags == 3

MaxTexFrags == 3

\* The pieces of the BibTeX contents.  A head opens an entry with a key;
\* a body is a list of field assignments and the closing brace.  `id` and
\* `fields` say what the piece denotes in BibTeX.
EntryHeads ==
    {[text |-> <<"@", "a", "{", "k", ",", " ">>, id |-> <<"k">>],
     [text |-> <<"@", "A", "b", "{", "j", ",">>, id |-> <<"j">>]}

EntryBodies ==
    {[text |-> <<"x", " ", "=", " ", "{", "v", "}", "}">>,
      fields |-> (<<"x">> :> <<"v">>)],
     [text |-> <<"e", " ", "=", " ", "{", "a", "@", "b", ".", "o", "r", "g", "}", ",", " ", "y", " ", "=", " ", "1", "}">>,
      fields |-> (<<"e">> :> <<"a", "@", "b", ".", "o", "r", "g">>) @@ (<<"y">> :> <<"1">>)],
     [text |-> <<"t", " ", "=", " ", "{", "a", "Z", "}", ",", " ", "y", " ", "=", " ", "1", "}">>,
      fields |-> (<<"t">> :> <<"a", "Z">>) @@ (<<"y">> :> <<"1">>)],
     [text |-> <<"n", " ", "=", " ", "\"", "q", "\"", ",", " ", "w", " ", "=", " ", "r", "}">>,
      fields |-> (<<"n">> :> <<"q">>) @@ (<<"w">> :> <<"r">>)]}

BibFrags ==
    {h.text : h \in EntryHeads} \cup {b.text : b \in EntryBodies}
    \cup {<<"@">>, <<"Z">>, <<"\n">>}

\* one or two entries, each a head and a body
EntryLists ==
    LET one == {<<<<h, b>>>> : h \in EntryHeads, b \in EntryBodies}
    IN  one \cup {p \o q : p \in one, q \in one}

\* the content made of the entries of a list, one per line
RECURSIVE EntryListText(_)
EntryListText(es) ==
    IF Len(es) = 1 THEN es[1][1].text \o es[1][2].text
    ELSE es[1][1].text \o es[1][2].text \o <<"\n">>
         \o EntryListText(Tail(es))

\* the pieces of the .tex contents
TexFrags ==
    {<<"\\", "b", "i", "b", "i", "t", "e", "m", "{", "k", "}">>,
     <<"\\", "b", "i", "b", "i", "t", "e", "m", "[", "L", "]", "{", " ", "j", " ", "}">>,
     <<"\\", "b", "i", "b", "i", "t", "e", "m", "[", "]", "{", "}">>,
     <<" ", "A", ".", " ", "B", "e", "e", ".", "\n", "T", ".", " ", "2", "0", "1", "9", ".">>,
     <<"\\", "n", "e", "w", "b", "l", "o", "c", "k", " ", "U", ".">>,
     <<"]", "{", "x", "}", " ", "y">>,
     <<"\\", "e", "n", "d", "{", "t", "h", "e", "b", "i", "b", "l", "i", "o", "g", "r", "a", "p", "h", "y", "}">>}

RECURSIVE Texts(_, _)
Texts(frags, n) ==
    IF n = 0 THEN {<<>>}
    ELSE Texts(frags, n - 1)
         \cup {t \o f : t \in Texts(frags, n - 1), f \in frags}

\* Entry bodies with a pages range written with a hyphen, an en dash or an
\* em dash, and with fields named type and id.
NamedFieldBodies ==
    {[text |-> <<"p", "a", "g", "e", "s", " ", "=", " ", "{", "1", "2", "3">> \o <<d>> \o <<"1", "2", "5", "}", "}">>,
      fields |-> (<<"p", "a", "g", "e", "s">> :> (<<"1", "2", "3">> \o <<d>> \o <<"1", "2", "5">>))] :
        d \in {"-", "&ndash;", "&mdash;"}}
    \cup
    {[text |-> <<"t", "y", "p", "e", " ", "=", " ", "{", "R", "}", ",", " ", "i", "d", " ", "=", " ", "{", "x", "}", "}">>,
      fields |-> (<<"t", "y", "p", "e">> :> <<"R">>) @@ (<<"i", "d">> :> <<"x">>)],
     [text |-> <<"t", "y", "p", "e", " ", "=", " ", "{", "}", ",", " ", "y", " ", "=", " ", "1", "}">>,
      fields |-> (<<"t", "y", "p", "e">> :> <<>>) @@ (<<"y">> :> <<"1">>)]}

\* Entry bodies in which a field name occurs more than once, also in another
\* letter case, in each of the four forms of a value, the last field having
\* no comma after it.  `fields` lists the assignments in source order.
DupBodies ==
    {[text |-> <<"T", "i", "t", "l", "e", " ", "=", " ", "{", "A", "}", ",", " ", "t", "i", "t", "l", "e", " ", "=", " ", "{", "B", "}", "}">>,
      fields |-> <<<<<<"T", "i", "t", "l", "e">>, <<"A">>>>, <<<<"t", "i", "t", "l", "e">>, <<"B">>>>>>],
     [text |-> <<"t", "i", "t", "l", "e", " ", "=", " ", "{", "B", "}", ",", " ", "T", "i", "t", "l", "e", " ", "=", " ", "\"", "A", "\"", ",", " ", "y", " ", "=", " ", "1", "}">>,
      fields |-> <<<<<<"t", "i", "t", "l", "e">>, <<"B">>>>, <<<<"T", "i", "t", "l", "e">>, <<"A">>>>, <<<<"y">>, <<"1">>>>>>],
     [text |-> <<"n", " ", "=", " ", "1", ",", " ", "N", " ", "=", " ", "2", "}">>,
      fields |-> <<<<<<"n">>, <<"1">>>>, <<<<"N">>, <<"2">>>>>>],
     [text |-> <<"w", " ", "=", " ", "r", ",", " ", "x", " ", "=", " ", "{", "v", "}", ",", " ", "W", " ", "=", " ", "s", "}">>,
      fields |-> <<<<<<"w">>, <<"r">>>>, <<<<"x">>, <<"v">>>>, <<<<"W">>, <<"s">>>>>>],
     [text |-> <<"x", " ", "=", " ", "{", "v", "}", ",", " ", "X", " ", "=", " ", "\"", "q", "\"", "}">>,
      fields |-> <<<<<<"x">>, <<"v">>>>, <<<<"X">>, <<"q">>>>>>]}

\* Entry bodies whose author value holds the umlaut escape \"u, between
\* double quotes (bare and in braces) and between braces.  `author` is
\* the name the value denotes.
UmlautBodies ==
    {[text |-> <<"a", "u", "t", "h", "o", "r", " ", "=", " ", "\"", "M", "\\", "\"", "u", "l", "l", "e", "r", "\"", "}">>,
      author |-> <<"M", "&uuml;", "l", "l", "e", "r">>],
     [text |-> <<"a", "u", "t", "h", "o", "r", " ", "=", " ", "\"", "M", "{", "\\", "\"", "u", "}", "l", "l", "e", "r", "\"", ",", " ", "y", " ", "=", " ", "1", "}">>,
      author |-> <<"M", "&uuml;", "l", "l", "e", "r">>],
     [text |-> <<"a", "u", "t", "h", "o", "r", " ", "=", " ", "{", "M", "\\", "\"", "u", "l", "l", "e", "r", "}", "}">>,
      author |-> <<"M", "&uuml;", "l", "l", "e", "r">>]}

BibInputs ==
    Texts(BibFrags, MaxBibFrags)
    \cup {EntryListText(es) : es \in EntryLists} \cup {ScenarioBib}
    \cup {h.text \o b.text \o <<"@">> :
              h \in EntryHeads,
              b \in NamedFieldBodies \cup DupBodies \cup UmlautBodies}

\* Bibitem bodies that hold the identifier arXiv:2005.14165, after and
\* before other text.
ArxivId == <<"2", "0", "0", "5", ".", "1", "4", "1", "6", "5">>

ArxivBodies ==
    {b \o <<"a", "r", "X", "i", "v", ":">> \o ArxivId \o a :
        b \in {<<>>, <<"A", ".", " ", "B", "e", "e", ".", " ", "T", ".", " ">>, <<"a", "r", "X", "i", "v", ":", "1", "7", "0", "6", ".", "0", "3", "7", "6", "2", ",", " ">>, <<"{", "\\", "e", "m", " ", "J", "}", ",", " ">>},
        a \in {<<>>, <<" ", "2", "0", "2", "0", ".">>, <<".">>, <<"v", "2">>, <<",", " ", "2", "0", "2", "0", ".">>, <<"}", ".", " ", "2", "0", "2", "0">>}}

\* Bibitem bodies with a pages range.
PagesBodies ==
    {<<"A", ".", " ", "B", "e", "e", ".", " ", "T", ".", " ", "p", "p", ".", " ", "1", "2", "3">> \o <<d>> \o <<"1", "2", "5", ".">> : d \in {"-", "&ndash;", "&mdash;"}}
    \cup {<<"A", ".", " ", "B", "e", "e", ".", " ", "P", "a", "g", "e", "s", ":", " ", "7", "&mdash;", "9", "-", "-", "1", "2", ",", " ", "2", "0", "0", "1", ".">>}

\* Contents with a blank label and a blank citekey, with a \bibitem after
\* \end{thebibliography}, and with a \bibitem that no citekey follows.
SplitTexts ==
    {<<"\\", "b", "i", "b", "i", "t", "e", "m", "[", " ", "]", "{", "k", "}", " ", "A", ".", "\\", "b", "i", "b", "i", "t", "e", "m", "{", " ", "}">>,
     <<"\\", "b", "i", "b", "i", "t", "e", "m", "{", "k", "}", " ", "A", ".", "\\", "e", "n", "d", "{", "t", "h", "e", "b", "i", "b", "l", "i", "o", "g", "r", "a", "p", "h", "y", "}", " ", "x", " ", "\\", "b", "i", "b", "i", "t", "e", "m", "{", "j", "}", " ", "B", ".">>,
     <<"x", " ", "\\", "b", "i", "b", "i", "t", "e", "m", " ", "y", " ", "\\", "b", "i", "b", "i", "t", "e", "m", "[", "M", "]", "{", "j", "}", "\n", " ", "B", ".", "\n", "\\", "b", "i", "b", "i", "t", "e", "m", "{", "k", "}">>}

\* Contents whose text has runs of whitespace, two line breaks in a row,
\* a line that ends with two periods, a line that is one period, and one
\* line only.
LineTexts ==
    {<<"\\", "b", "i", "b", "i", "t", "e", "m", "{", "k", "}", " ", "A", ".", " ", " ", "B", "e", "e", ".", ".", "\r", "\n", "\r", "\n", " ", "T", ".", "\t", "2", "0", "1", "9", ".", "\\", "n", "e", "w", "b", "l", "o", "c", "k", " ", "U", ".">>,
     <<"\\", "b", "i", "b", "i", "t", "e", "m", "{", "k", "}", " ", ".", "\\", "n", "e", "w", "b", "l", "o", "c", "k", "\\", "n", "e", "w", "b", "l", "o", "c", "k", " ", " ", "x">>,
     <<"\\", "b", "i", "b", "i", "t", "e", "m", "{", "k", "}", "\n", "\n", " ", "A", ".", " ", "B", "e", "e", " ", "\n">>}

\* Bibitem texts that more than one journal pattern matches, the pattern
\* that comes first in the list matching later in the text, and a text
\* whose first \textit group is blank.
JournalTexts ==
    {<<"\\", "e", "m", "p", "h", "{", "A", "}", " ", "a", "n", "d", " ", "\\", "t", "e", "x", "t", "i", "t", "{", "B", "}", ".">>,
     <<"I", "n", " ", "{", "\\", "i", "t", " ", "C", "}", ",", " ", "\\", "e", "m", "p", "h", "{", " ", "A", " ", "}", ".">>,
     <<"A", ".", " ", "B", "e", "e", ".", " ", "J", "o", "u", "r", "n", "a", "l", " ", "o", "f", " ", "X", ".", " ", "{", "\\", "e", "m", " ", "D", "}", ".">>,
     <<"\\", "t", "e", "x", "t", "i", "t", "{", " ", "}", " ", "\\", "e", "m", "p", "h", "{", "A", "}">>}

\* Bibitem texts with a \textit group, blank and not, before the phrase
\* `In Proceedings of the`.
VenueTexts ==
    {<<"\\", "t", "e", "x", "t", "i", "t", "{", " ", "}", " ", "I", "n", " ", "P", "r", "o", "c", "e", "e", "d", "i", "n", "g", "s", " ", "o", "f", " ", "t", "h", "e", " ", "X", ".">>,
     <<"\\", "t", "e", "x", "t", "i", "t", "{", "J", "}", " ", "I", "n", " ", "P", "r", "o", "c", "e", "e", "d", "i", "n", "g", "s", " ", "o", "f", " ", "t", "h", "e", " ", "X", ".">>}

\* Bibitem texts with a capitalized phrase that holds Conference or
\* Workshop, after the word In and without it, no journal pattern and no
\* `In proceedings of the` matching them.  `phrase` is the phrase.
ConferenceTexts ==
    {[text |-> <<"A", ".", " ", "B", "e", "e", ".", " ", "T", ".", " ", "I", "n", " ", "I", "n", "t", "e", "r", "n", "a", "t", "i", "o", "n", "a", "l", " ", "C", "o", "n", "f", "e", "r", "e", "n", "c", "e", " ", "o", "n", " ", "X", ",", " ", "2", "0", "1", "9", ".">>,
      phrase |-> <<"I", "n", "t", "e", "r", "n", "a", "t", "i", "o", "n", "a", "l", " ", "C", "o", "n", "f", "e", "r", "e", "n", "c", "e", " ", "o", "n", " ", "X">>],
     [text |-> <<"A", ".", " ", "B", "e", "e", ".", " ", "T", ".", " ", "I", "n", "t", "e", "r", "n", "a", "t", "i", "o", "n", "a", "l", " ", "C", "o", "n", "f", "e", "r", "e", "n", "c", "e", " ", "o", "n", " ", "X", ",", " ", "2", "0", "1", "9", ".">>,
      phrase |-> <<"I", "n", "t", "e", "r", "n", "a", "t", "i", "o", "n", "a", "l", " ", "C", "o", "n", "f", "e", "r", "e", "n", "c", "e", " ", "o", "n", " ", "X">>],
     [text |-> <<"A", ".", " ", "B", "e", "e", ".", " ", "T", ".", " ", "W", "o", "r", "k", "s", "h", "o", "p", " ", "o", "n", " ", "Y", ".">>,
      phrase |-> <<"W", "o", "r", "k", "s", "h", "o", "p", " ", "o", "n", " ", "Y">>]}

\* Bibitem texts with the word book: in a closed \textit group, in one
\* left open, after a blank and after an empty first group, after a
\* journal, in a group whose command is not in lower case, and in no group.
BookTexts ==
    {<<"\\", "t", "e", "x", "t", "i", "t", "{", "M", "y", " ", "B", "o", "o", "k", "}", ",", " ", "2", "0", "0", "1", ".">>,
     <<"\\", "t", "e", "x", "t", "i", "t", "{", "a", " ", "b", "o", "o", "k">>,
     <<"\\", "t", "e", "x", "t", "i", "t", "{", " ", "}", " ", "\\", "t", "e", "x", "t", "i", "t", "{", "b", "o", "o", "k", "}">>,
     <<"\\", "T", "e", "x", "t", "i", "t", "{", "M", "y", " ", "B", "o", "o", "k", "}", ",", " ", "2", "0", "0", "1", ".">>,
     <<"\\", "t", "e", "x", "t", "i", "t", "{", "J", "}", " ", "\\", "t", "e", "x", "t", "i", "t", "{", "b", "o", "o", "k">>,
     <<"\\", "e", "m", "p", "h", "{", "J", "}", " ", "\\", "t", "e", "x", "t", "i", "t", "{", "b", "o", "o", "k">>,
     <<"A", ".", " ", "B", "e", "e", ".", " ", "T", "h", "e", " ", "b", "o", "o", "k", ".">>,
     <<"\\", "t", "e", "x", "t", "i", "t", "{", "}", " ", "\\", "t", "e", "x", "t", "i", "t", "{", "b", "o", "o", "k", "}">>}

TexInputs ==
    Texts(TexFrags, MaxTexFrags)
    \cup SplitTexts \cup LineTexts
    \cup {<<"\\", "b", "i", "b", "i", "t", "e", "m", "{", "k", "}", " ">> \o b : b \in JournalTexts \cup VenueTexts
                       \cup {c.text : c \in ConferenceTexts}
                       \cup BookTexts}
    \cup {<<"\\", "b", "i", "b", "i", "t", "e", "m", "{", "k", "}", " ">> \o b : b \in ArxivBodies \cup PagesBodies}

\* The values given to cleanBibtexValue alone: at most MaxValueFrags pieces
\* put one after the other, and the values of the specification's examples.
MaxValueFrags == 3

ValueFrags ==
    {<<"{">>, <<"}">>, <<"$">>, <<" ">>, <<"\n">>, <<"x">>, <<"\\">>,
     <<"\\", "\"", "U">>, <<"\\", "'", "{", "e", "}">>, <<"\\", "&">>}

UmlautExample == <<"{", "\\", "\"", "u", "}", "b", "e", "r">>

AcuteExample == <<"\\", "'", "{", "e", "}", "t", "o", "i", "l", "e">>

CleanInputs ==
    Texts(ValueFrags, MaxValueFrags)
    \cup {UmlautExample, AcuteExample, <<"{", "{", "x", "}", "}">>, <<"a", " ", "\\", "&", " ", "{", "b", "}", " ", " ", "$", "c", "$", " ">>, <<"$", "\\", "\"", "o", "$", "{", "\\", "'", "{", "I", "}", "}">>}

\* The contents of successive parser calls: at most two pieces each.
TexCallContents == {t \o u : t, u \in TexFrags \cup {<<>>}}

BibCallContents ==
    {h.text \o b.text \o a : h \in EntryHeads, b \in EntryBodies,
                             a \in {<<>>, <<"@">>}}

\* the number of calls that returned entries is counted up to MaxCalls
MaxCalls == 2

\* ----------------------------------------------------- extractReferences
\* The parsers applied to the files of the model's directories.  What they
\* return for a content is computed once and looked up afterwards.
BibContents ==
    {BibText(Stems[k], q, 1) : k \in 1..MaxFiles, q \in IdSeqs(MaxEntries)}
    \cup {f.content : f \in Range(ScenarioBibDir.entries)}

TexContents ==
    {TexText(Stems[k], q, 1) : k \in 1..MaxFiles, q \in IdSeqs(MaxEntries)}
    \cup {f.content : f \in Range(ScenarioTexDir.entries)}

parsedBibContents == [c \in BibContents |-> parseBibtexContent(c)]

parsedTexContents ==
    [c \in TexContents |-> parseLatexBibliographyContent(c, 0)]

\* parseBibtexContent(content) at line 634
parseBibFile(c) == parsedBibContents[c]

\* parseLatexBibliographyContent(content) at line 658
parseTexFile(c, li) ==
    IF c \in TexContents /\ li = 0 THEN parsedTexContents[c]
    ELSE parseLatexBibliographyContent(c, li)

\* one iteration of the loop over bibFiles, were a failed read to lose
\* the records collected so far
bibIterationLosingRecords(map, found, read, entries) ==
    IF read.threw
    THEN [entries |-> <<>>, map |-> EmptyMap, found |-> found]
    ELSE [entries |-> entries, map |-> mapSetAll(map, entries),
          found |-> TRUE]

\* one iteration of the loop over bibFiles (lines 631-647), given what
\* readFile gave and, when it gave the content, the entries
\* parseBibtexContent returns for it: the entries parsed, the map and
\* foundBibtex afterwards
bibIteration(map, found, read, entries) ==
    IF read.threw
    THEN [entries |-> <<>>, map |-> map, found |-> found]
    ELSE [entries |-> entries, map |-> mapSetAll(map, entries),
          found |-> TRUE]

\* one iteration of the loop over texFiles, were the search position of
\* BIBITEM_PATTERN left at the end of the content parsed
texIterationIndexAtEnd(map, found, li, read, parsed) ==
    IF read.threw \/ ~includes(read.content, <<"\\", "b", "i", "b", "i", "t", "e", "m">>)
    THEN [entries |-> <<>>, map |-> map, found |-> found,
          lastIndex |-> li]
    ELSE [entries |-> parsed.entries,
          map |-> mapSetAll(map, parsed.entries),
          found |-> found \/ Len(parsed.entries) > 0,
          lastIndex |-> Len(read.content)]

\* one iteration of the loop over texFiles (lines 654-673), given what
\* readFile gave and, when it gave the content, what
\* parseLatexBibliographyContent returns for it
texIteration(map, found, li, read, parsed) ==
    IF read.threw \/ ~includes(read.content, <<"\\", "b", "i", "b", "i", "t", "e", "m">>)
    THEN [entries |-> <<>>, map |-> map, found |-> found,
          lastIndex |-> li]
    ELSE [entries |-> parsed.entries,
          map |-> mapSetAll(map, parsed.entries),
          found |-> found \/ Len(parsed.entries) > 0,
          lastIndex |-> parsed.lastIndex]

\* the loops run to their end, from file i on
RECURSIVE bibLoop(_, _, _, _, _)
bibLoop(root, bibFiles, i, map, found) ==
    IF i > Len(bibFiles) THEN [map |-> map, found |-> found]
    ELSE LET read == readFile(root, bibFiles[i])
             it == bibIteration(map, found, read, parseBibFile(read.content))
         IN  bibLoop(root, bibFiles, i + 1, it.map, it.found)

RECURSIVE texLoop(_, _, _, _, _)
texLoop(root, texFiles, i, map, li) ==
    IF i > Len(texFiles) THEN map
    ELSE LET read == readFile(root, texFiles[i])
             it == texIteration(map, FALSE, li, read,
                                parseTexFile(read.content, li))
         IN  texLoop(root, texFiles, i + 1, it.map, it.lastIndex)

\* what a call of extractReferences(paperDir) that runs alone resolves to
\* (the list, or a rejection when an awaited call throws uncaught)
extractReferences(root) ==
    LET bibFiles == findFiles(root, <<>>, BibExt)
        texFiles == findFiles(root, <<>>, TexExt)
        bib == bibLoop(root, bibFiles.files, 1, EmptyMap, FALSE)
    IN  IF bibFiles.threw \/ (~bib.found /\ texFiles.threw)
        THEN [rejected |-> TRUE, value |-> <<>>]
        ELSE [rejected |-> FALSE,
              value |-> IF bib.found THEN ObjectValues(bib.map)
                        ELSE ObjectValues(texLoop(root, texFiles.files, 1,
                                                  bib.map, 0))]

\* ---------------------------------------------------------------- state
\* ------------------------------------------------- the reference pipeline
\* paperReferencesInsertMany and what it calls.  A paper id is a positive
\* number and null is 0; a string that is null is the empty string.
nullId == 0

\* the tables papers and paper_references, without rows
EmptyDb == [papers |-> <<>>, paperReferences |-> <<>>]

\* /\d{4}\.\d{5}/
arxivIdPattern ==
    Regex(Cat(<<Chr(Digit), Chr(Digit), Chr(Digit), Chr(Digit), Chr({"."}),
                Chr(Digit), Chr(Digit), Chr(Digit), Chr(Digit),
                Chr(Digit)>>), 0)

\* [reference.title, reference.authors, reference.raw_bibtex,
\*  ...Object.values(reference).filter(v => typeof v === "string")]
fieldsToSearch(reference) ==
    <<reference.title, reference.authors, reference.raw_bibtex,
      reference.id, reference.title, reference.authors,
      reference.raw_bibtex>>

\* the loop of findArxivIdInReference from field k on: the first match
RECURSIVE firstArxivId(_, _)
firstArxivId(fields, k) ==
    IF k > Len(fields) THEN <<>>
    ELSE IF fields[k] = <<>> THEN firstArxivId(fields, k + 1)
    ELSE LET match == Exec(arxivIdPattern, fields[k], 1)
         IN  IF match.ok THEN Group(fields[k], match, 0)
             ELSE firstArxivId(fields, k + 1)

findArxivIdInReference(reference) ==
    firstArxivId(fieldsToSearch(reference), 1)

\* `http://arxiv.org/abs/${arxivId}`
onlineUrlOf(arxivId) ==
    <<"h", "t", "t", "p", ":", "/", "/", "a", "r", "x", "i", "v", ".", "o", "r", "g", "/", "a", "b", "s", "/">> \o arxivId

\* select from papers where onlineUrl LIKE '%arxivId%': the ids of the rows
\* that qualify; limit(1) returns one of them
findPaperByArxivId(rows, arxivId) ==
    {rows[r].id : r \in {q \in 1..Len(rows) :
                            includes(rows[q].onlineUrl, arxivId)}}

\* An activation of one of the two async functions, from one await to the
\* next.  pc names what it awaits.
Activation(fn, parent, at) ==
    [fn |-> fn, parent |-> parent, pc |-> at, paperId |-> nullId,
     references |-> <<>>, reference |-> <<>>, arxivId |-> <<>>,
     pdf |-> 0, caught |-> FALSE, error |-> "none", returned |-> nullId]

\* processReferenceWithArxivId(reference) up to its first await: it has
\* returned null when the reference holds no arXiv id, and awaits
\* findPaperByArxivId otherwise.  parent is the activation of
\* paperReferencesInsertMany whose map made the call.
processReferenceWithArxivId(reference, parent) ==
    LET arxivId == findArxivIdInReference(reference)
    IN  [Activation("processReferenceWithArxivId", parent,
                    IF arxivId = <<>> THEN "done"
                    ELSE "findPaperByArxivId")
         EXCEPT !.reference = reference, !.arxivId = arxivId]

\* paperReferencesInsertMany(paperId, references) up to its first await,
\* added to the activations ts: it has returned 0 for an empty list, and
\* otherwise has called processReferenceWithArxivId for every reference
\* and awaits Promise.all.  parent is the activation that awaits it, 0 for
\* the call made for the uploaded paper.
paperReferencesInsertMany(ts, paperId, references, parent) ==
    ts
    \o <<[Activation("paperReferencesInsertMany", parent,
                     IF references = <<>> THEN "done" ELSE "Promise.all")
          EXCEPT !.paperId = paperId, !.references = references]>>
    \o [k \in 1..Len(references) |->
           processReferenceWithArxivId(references[k], Len(ts) + 1)]

\* the activations the map of activation i made
mapped(ts, i) ==
    {j \in 1..Len(ts) : ts[j].parent = i
                        /\ ts[j].fn = "processReferenceWithArxivId"}

\* the values paperReferencesInsertMany inserts, one per reference, in the
\* order of the list
valuesToInsert(ts, i) ==
    [k \in 1..Len(ts[i].references) |->
        [paperId |-> ts[i].paperId,
         referenceKey |-> ts[i].references[k].id,
         referencePaperId |-> ts[i + k].returned]]

\* ---- what the pipeline is given
ArxivA == <<"2", "0", "0", "5", ".", "1", "4", "1", "6", "5">>

ArxivB == <<"1", "7", "0", "6", ".", "0", "3", "7", "6", "2">>

\* A ReferenceInput: the citation key, title, authors and raw_bibtex.
ReferenceInput(id, title, raw) ==
    [id |-> id, title |-> title, authors |-> <<>>, raw_bibtex |-> raw]

RefA == ReferenceInput(<<"r", "1">>, <<"a", "r", "X", "i", "v", ":", "2", "0", "0", "5", ".", "1", "4", "1", "6", "5">>, <<>>)

RefAgainA == ReferenceInput(<<"r", "2">>, <<"T">>, <<"@", "a", "{", "r", "2", ",", " ", "e", "p", "r", "i", "n", "t", " ", "=", " ", "{", "2", "0", "0", "5", ".", "1", "4", "1", "6", "5", "v", "2", "}", "}">>)

RefNoId == ReferenceInput(<<"r", "3">>, <<"T">>, <<>>)

RefB == ReferenceInput(<<"r", "4">>, <<"A", "t", "t", "e", "n", "t", "i", "o", "n", ",", " ", "a", "r", "X", "i", "v", " ", "1", "7", "0", "6", ".", "0", "3", "7", "6", "2">>, <<>>)

\* The uploaded paper's references, and for each arXiv paper the references
\* the extraction service finds in its PDF.
NoWorld == [upload |-> <<>>, cites |-> <<>>]

Worlds ==
    {[upload |-> <<RefA, RefAgainA>>,
      cites |-> (ArxivA :> <<RefB>>) @@ (ArxivB :> <<>>)],
     [upload |-> <<RefA, RefNoId>>,
      cites |-> (ArxivA :> <<RefB, RefA>>) @@ (ArxivB :> <<RefA>>)],
     [upload |-> <<RefB>>,
      cites |-> (ArxivA :> <<>>) @@ (ArxivB :> <<>>)],
     [upload |-> <<>>,
      cites |-> (ArxivA :> <<>>) @@ (ArxivB :> <<>>)]}

\* how many different files the download of one arXiv PDF can give
MaxPdfVersions == 2

\* the row of the uploaded paper: no onlineUrl, the hash of the upload
UploadedPaper ==
    [id |-> 1, onlineUrl |-> <<>>, fileHash |-> [of |-> <<>>, pdf |-> 0]]

VARIABLES
    fs,           \* the paper directory
    pc,           \* where the call of extractReferences stands
    paths,        \* bibFiles, then texFiles
    idx,          \* the file the loop is at
    entriesMap,
    foundBibtex,
    foundAny,
    result,       \* what the call resolved to
    lastIndex,    \* BIBITEM_PATTERN.lastIndex
    scanned,      \* history: the entries parsed so far, in order
    input,        \* the argument of a parser called alone
    output,       \* what that call returned
    reparsed,     \* for each entry, what parsing its raw text returned
    calls,        \* the locals of each of two concurrent calls
    reads,        \* findFiles: the directory reads that have started
    db,           \* the rows of papers and of paper_references
    tasks,        \* the activations of the reference pipeline
    world         \* what arXiv and the extraction service hold

vars ==
    <<fs, pc, paths, idx, entriesMap, foundBibtex, foundAny, result,
      lastIndex, scanned, input, output, reparsed, calls, reads, db,
      tasks, world>>

concVars == <<calls, reads>>

pipeVars == <<db, tasks, world>>

callVars ==
    <<fs, paths, idx, entriesMap, foundBibtex, foundAny, result, scanned>>

parserVars == <<input, output, reparsed>>

\* ----------------------------------------- extractReferences, step by step
\* The call runs from one await to the next.  It starts by awaiting
\* findFiles(paperDir, ".bib").
Init ==
    /\ fs \in Trees
    /\ pc = "awaitBibFiles"
    /\ paths = <<>>
    /\ idx = 1
    /\ entriesMap = EmptyMap
    /\ foundBibtex = FALSE
    /\ foundAny = FALSE
    /\ result = <<>>
    /\ lastIndex = 0
    /\ scanned = <<>>
    /\ input = <<>>
    /\ output = <<>>
    /\ reparsed = <<>>
    /\ calls = <<>>
    /\ reads = <<>>
    /\ db = EmptyDb
    /\ tasks = <<>>
    /\ world = NoWorld

\* return Object.values(entriesMap)
Return(map) ==
    /\ pc' = "done"
    /\ result' = ObjectValues(map)

\* after the loop over bibFiles: return, or await findFiles(paperDir, ".tex")
AfterBibLoop(map, found) ==
    IF found THEN Return(map)
    ELSE pc' = "awaitTexFiles" /\ result' = result

\* findFiles(paperDir, ".bib") has settled
BibFilesListed ==
    /\ pc = "awaitBibFiles"
    /\ LET listed == findFiles(fs, <<>>, BibExt)
       IN  /\ paths' = listed.files
           /\ idx' = 1
           /\ IF listed.threw THEN pc' = "rejected" /\ result' = result
              ELSE IF listed.files # <<>>
              THEN pc' = "awaitBibRead" /\ result' = result
              ELSE AfterBibLoop(entriesMap, foundBibtex)
    /\ UNCHANGED <<fs, entriesMap, foundBibtex, foundAny, lastIndex, scanned>>
    /\ UNCHANGED parserVars
    /\ UNCHANGED concVars
    /\ UNCHANGED pipeVars

\* readFile of bibFiles[idx] has settled
BibFileRead ==
    /\ pc = "awaitBibRead"
    /\ \E read \in {readFile(fs, paths[idx])} :
       \E it \in {bibIteration(entriesMap, foundBibtex, read,
                               parseBibFile(read.content))} :
           /\ entriesMap' = it.map
           /\ foundBibtex' = it.found
           /\ scanned' = scanned \o it.entries
           /\ idx' = idx + 1
           /\ IF idx < Len(paths)
              THEN pc' = "awaitBibRead" /\ result' = result
              ELSE AfterBibLoop(it.map, it.found)
    /\ UNCHANGED <<fs, paths, foundAny, lastIndex>>
    /\ UNCHANGED parserVars
    /\ UNCHANGED concVars
    /\ UNCHANGED pipeVars

\* findFiles(paperDir, ".tex") has settled
TexFilesListed ==
    /\ pc = "awaitTexFiles"
    /\ LET listed == findFiles(fs, <<>>, TexExt)
       IN  /\ paths' = listed.files
           /\ idx' = 1
           /\ IF listed.threw THEN pc' = "rejected" /\ result' = result
              ELSE IF listed.files # <<>>
              THEN pc' = "awaitTexRead" /\ result' = result
              ELSE Return(entriesMap)
    /\ UNCHANGED <<fs, entriesMap, foundBibtex, foundAny, lastIndex, scanned>>
    /\ UNCHANGED parserVars
    /\ UNCHANGED concVars
    /\ UNCHANGED pipeVars

\* readFile of texFiles[idx] has settled
TexFileRead ==
    /\ pc = "awaitTexRead"
    /\ \E read \in {readFile(fs, paths[idx])} :
       \E it \in {texIteration(entriesMap, foundAny, lastIndex, read,
                               parseTexFile(read.content, lastIndex))} :
           /\ entriesMap' = it.map
           /\ foundAny' = it.found
           /\ lastIndex' = it.lastIndex
           /\ scanned' = scanned \o it.entries
           /\ idx' = idx + 1
           /\ IF idx < Len(paths)
              THEN pc' = "awaitTexRead" /\ result' = result
              ELSE Return(it.map)
    /\ UNCHANGED <<fs, paths, foundBibtex>>
    /\ UNCHANGED parserVars
    /\ UNCHANGED concVars
    /\ UNCHANGED pipeVars

Next == BibFilesListed \/ BibFileRead \/ TexFilesListed \/ TexFileRead

Spec == Init /\ [][Next]_vars

\* ------------------------------------------ parseBibtexContent called alone
InitBibtex ==
    /\ input \in BibInputs
    /\ pc = "call"
    /\ output = <<>>
    /\ reparsed = <<>>
    /\ calls = <<>>
    /\ reads = <<>>
    /\ lastIndex = 0
    /\ fs = Tree(<<>>, "flat")
    /\ paths = <<>>
    /\ idx = 1
    /\ entriesMap = EmptyMap
    /\ foundBibtex = FALSE
    /\ foundAny = FALSE
    /\ result = <<>>
    /\ scanned = <<>>
    /\ db = EmptyDb
    /\ tasks = <<>>
    /\ world = NoWorld

ParseBibtex ==
    /\ pc = "call"
    /\ output' = parseBibtexContent(input)
    /\ pc' = "returned"
    /\ UNCHANGED <<input, reparsed, lastIndex>>
    /\ UNCHANGED callVars
    /\ UNCHANGED concVars
    /\ UNCHANGED pipeVars

\* each returned entry's raw_bibtex parsed in isolation
ReparseBibtex ==
    /\ pc = "returned"
    /\ reparsed' = [k \in 1..Len(output) |->
                       parseBibtexContent(output[k][PropName.raw_bibtex])]
    /\ pc' = "reparsed"
    /\ UNCHANGED <<input, output, lastIndex>>
    /\ UNCHANGED callVars
    /\ UNCHANGED concVars
    /\ UNCHANGED pipeVars

NextBibtex == ParseBibtex \/ ReparseBibtex

SpecBibtex == InitBibtex /\ [][NextBibtex]_vars

\* ------------------------------- parseLatexBibliographyContent called alone
InitBibitem ==
    /\ input \in TexInputs
    /\ pc = "call"
    /\ output = <<>>
    /\ reparsed = <<>>
    /\ calls = <<>>
    /\ reads = <<>>
    /\ lastIndex = 0
    /\ fs = Tree(<<>>, "flat")
    /\ paths = <<>>
    /\ idx = 1
    /\ entriesMap = EmptyMap
    /\ foundBibtex = FALSE
    /\ foundAny = FALSE
    /\ result = <<>>
    /\ scanned = <<>>
    /\ db = EmptyDb
    /\ tasks = <<>>
    /\ world = NoWorld

ParseBibitem ==
    /\ pc = "call"
    /\ \E parsed \in {parseLatexBibliographyContent(input, lastIndex)} :
           output' = parsed.entries /\ lastIndex' = parsed.lastIndex
    /\ pc' = "returned"
    /\ UNCHANGED <<input, reparsed>>
    /\ UNCHANGED callVars
    /\ UNCHANGED concVars
    /\ UNCHANGED pipeVars

\* each returned entry's raw_bibitem parsed in isolation
ReparseBibitem ==
    /\ pc = "returned"
    /\ reparsed' = [k \in 1..Len(output) |->
                       parseLatexBibliographyContent(
                           output[k][PropName.raw_bibitem], lastIndex).entries]
    /\ pc' = "reparsed"
    /\ UNCHANGED <<input, output, lastIndex>>
    /\ UNCHANGED callVars
    /\ UNCHANGED concVars
    /\ UNCHANGED pipeVars

NextBibitem == ParseBibitem \/ ReparseBibitem

SpecBibitem == InitBibitem /\ [][NextBibitem]_vars

\* ------------------------------------------- cleanBibtexValue called alone
InitClean ==
    /\ input \in CleanInputs
    /\ pc = "call"
    /\ output = <<>>
    /\ reparsed = <<>>
    /\ calls = <<>>
    /\ reads = <<>>
    /\ lastIndex = 0
    /\ fs = Tree(<<>>, "flat")
    /\ paths = <<>>
    /\ idx = 1
    /\ entriesMap = EmptyMap
    /\ foundBibtex = FALSE
    /\ foundAny = FALSE
    /\ result = <<>>
    /\ scanned = <<>>
    /\ db = EmptyDb
    /\ tasks = <<>>
    /\ world = NoWorld

CleanValue ==
    /\ pc = "call"
    /\ output' = cleanBibtexValue(input)
    /\ pc' = "returned"
    /\ UNCHANGED <<input, reparsed, lastIndex>>
    /\ UNCHANGED callVars
    /\ UNCHANGED concVars
    /\ UNCHANGED pipeVars

NextClean == CleanValue

SpecClean == InitClean /\ [][NextClean]_vars

\* ------------------------------------------- the parsers called in a row
\* Any number of calls of the two parsers, one after the other, on any
\* contents.  idx counts the calls of parseLatexBibliographyContent that
\* returned entries.
InitCalls ==
    /\ pc = "idle"
    /\ input = <<>>
    /\ output = <<>>
    /\ lastIndex = 0
    /\ idx = 0
    /\ reparsed = <<>>
    /\ calls = <<>>
    /\ reads = <<>>
    /\ fs = Tree(<<>>, "flat")
    /\ paths = <<>>
    /\ entriesMap = EmptyMap
    /\ foundBibtex = FALSE
    /\ foundAny = FALSE
    /\ result = <<>>
    /\ scanned = <<>>
    /\ db = EmptyDb
    /\ tasks = <<>>
    /\ world = NoWorld

CallBibitem ==
    /\ \E c \in TexCallContents :
       \E parsed \in {parseLatexBibliographyContent(c, lastIndex)} :
           /\ input' = c
           /\ output' = parsed.entries
           /\ lastIndex' = parsed.lastIndex
           /\ idx' = IF parsed.entries # <<>> /\ idx < MaxCalls
                     THEN idx + 1 ELSE idx
    /\ pc' = "bibitem"
    /\ UNCHANGED <<fs, paths, entriesMap, foundBibtex, foundAny, result,
                   scanned, reparsed>>
    /\ UNCHANGED concVars
    /\ UNCHANGED pipeVars

\* bibtexEntryPattern and bibtexFieldPattern are made anew by each call
CallBibtex ==
    /\ \E c \in BibCallContents :
           /\ input' = c
           /\ output' = parseBibtexContent(c)
    /\ pc' = "bibtex"
    /\ UNCHANGED <<fs, paths, idx, entriesMap, foundBibtex, foundAny, result,
                   scanned, reparsed, lastIndex>>
    /\ UNCHANGED concVars
    /\ UNCHANGED pipeVars

NextCalls == CallBibitem \/ CallBibtex

SpecCalls == InitCalls /\ [][NextCalls]_vars

\* ------------------------------------ two calls of extractReferences at once
\* The directories of two concurrent calls: .tex files only, .bib files
\* only, both, unreadable files, and no file.
ConcFileLists ==
    LET bib(q) == [kind |-> "bib", ok |-> TRUE, ids |-> q]
        tex(q) == [kind |-> "tex", ok |-> TRUE, ids |-> q]
        unreadable(k) == [kind |-> k, ok |-> FALSE, ids |-> <<>>]
    IN  {<<tex(<<<<"b">>>>), tex(<<<<"2">>>>)>>,
         <<tex(<<<<"b">>, <<"b">>>>)>>,
         <<bib(<<<<"b">>>>), bib(<<<<"b">>>>)>>,
         <<bib(<<<<"2">>>>), tex(<<<<"b">>>>)>>,
         <<unreadable("bib"), tex(<<<<"b">>>>)>>,
         <<unreadable("tex"), tex(<<<<"1", "0">>>>)>>,
         <<>>}

ConcDirs == {Tree(fl, "flat") : fl \in ConcFileLists}

\* The locals of a call (lines 624-629, 651-652) when it reaches its first
\* await, of findFiles(paperDir, ".bib").
newCall(dir) ==
    [fs |-> dir, pc |-> "awaitBibFiles", paths |-> <<>>, idx |-> 1,
     entriesMap |-> EmptyMap, foundBibtex |-> FALSE, foundAny |-> FALSE,
     result |-> <<>>]

\* return Object.values(entriesMap)
returned(c) ==
    [c EXCEPT !.pc = "done", !.result = ObjectValues(c.entriesMap)]

\* after the loop over bibFiles
afterBibLoop(c) ==
    IF c.foundBibtex THEN returned(c) ELSE [c EXCEPT !.pc = "awaitTexFiles"]

\* findFiles(paperDir, ".bib") has settled with `listed`
bibFilesListed(c, listed) ==
    IF listed.threw THEN [c EXCEPT !.pc = "rejected"]
    ELSE IF listed.files # <<>>
    THEN [c EXCEPT !.paths = listed.files, !.idx = 1, !.pc = "awaitBibRead"]
    ELSE afterBibLoop([c EXCEPT !.paths = listed.files, !.idx = 1])

\* readFile of bibFiles[idx] has settled and the iteration gave `it`
bibFileRead(c, it) ==
    IF c.idx < Len(c.paths)
    THEN [c EXCEPT !.entriesMap = it.map, !.foundBibtex = it.found,
                   !.idx = c.idx + 1]
    ELSE afterBibLoop([c EXCEPT !.entriesMap = it.map,
                                !.foundBibtex = it.found, !.idx = c.idx + 1])

\* findFiles(paperDir, ".tex") has settled with `listed`
texFilesListed(c, listed) ==
    IF listed.threw THEN [c EXCEPT !.pc = "rejected"]
    ELSE IF listed.files # <<>>
    THEN [c EXCEPT !.paths = listed.files, !.idx = 1, !.pc = "awaitTexRead"]
    ELSE returned([c EXCEPT !.paths = listed.files, !.idx = 1])

\* readFile of texFiles[idx] has settled and the iteration gave `it`
texFileRead(c, it) ==
    [call |-> IF c.idx < Len(c.paths)
              THEN [c EXCEPT !.entriesMap = it.map, !.foundAny = it.found,
                             !.idx = c.idx + 1]
              ELSE returned([c EXCEPT !.entriesMap = it.map,
                                      !.foundAny = it.found,
                                      !.idx = c.idx + 1]),
     lastIndex |-> it.lastIndex]

\* The call with the locals c runs from the await it stands at to its next
\* await, or to its return, BIBITEM_PATTERN.lastIndex being li: the locals
\* and the lastIndex afterwards.
advance(c, li) ==
    CASE c.pc = "awaitBibFiles" ->
           [call |-> bibFilesListed(c, findFiles(c.fs, <<>>, BibExt)),
            lastIndex |-> li]
      [] c.pc = "awaitBibRead" ->
           [call |-> bibFileRead(c,
                         bibIteration(c.entriesMap, c.foundBibtex,
                             readFile(c.fs, c.paths[c.idx]),
                             parseBibFile(
                                 readFile(c.fs, c.paths[c.idx]).content))),
            lastIndex |-> li]
      [] c.pc = "awaitTexFiles" ->
           [call |-> texFilesListed(c, findFiles(c.fs, <<>>, TexExt)),
            lastIndex |-> li]
      [] c.pc = "awaitTexRead" ->
           texFileRead(c,
               texIteration(c.entriesMap, c.foundAny, li,
                   readFile(c.fs, c.paths[c.idx]),
                   parseTexFile(readFile(c.fs, c.paths[c.idx]).content, li)))

InitConcurrent ==
    /\ calls \in [1..2 -> {newCall(dir) : dir \in ConcDirs}]
    /\ lastIndex = 0
    /\ pc = "concurrent"
    /\ reads = <<>>
    /\ input = <<>>
    /\ output = <<>>
    /\ reparsed = <<>>
    /\ fs = Tree(<<>>, "flat")
    /\ paths = <<>>
    /\ idx = 1
    /\ entriesMap = EmptyMap
    /\ foundBibtex = FALSE
    /\ foundAny = FALSE
    /\ result = <<>>
    /\ scanned = <<>>
    /\ db = EmptyDb
    /\ tasks = <<>>
    /\ world = NoWorld

\* what call i awaits has settled: the call goes on to its next await
CallResumes(i) ==
    /\ calls[i].pc \notin {"done", "rejected"}
    /\ \E a \in {advance(calls[i], lastIndex)} :
           /\ calls' = [calls EXCEPT ![i] = a.call]
           /\ lastIndex' = a.lastIndex
    /\ UNCHANGED <<pc, reads>>
    /\ UNCHANGED callVars
    /\ UNCHANGED parserVars
    /\ UNCHANGED pipeVars

NextConcurrent == \E i \in 1..2 : CallResumes(i)

SpecConcurrent == InitConcurrent /\ [][NextConcurrent]_vars

\* ------------------------------------------------- findFiles, read by read
\* The directories given to findFiles alone: a file between two
\* subdirectories, or after them, one of which has a subdirectory of its
\* own; a subdirectory may be one that cannot be listed.
FindDirs ==
    LET f(name) == File(name, TRUE, <<>>)
        deep(ok) == Dir(<<"t">>, ok, <<f(<<"c", ".", "b", "i", "b">>), f(<<"c", ".", "t", "e", "x">>)>>)
        first == {Dir(<<"s">>, TRUE, <<f(<<"b", ".", "b", "i", "b">>), deep(ok), f(<<"d", ".", "b", "i", "b">>)>>) :
                     ok \in BOOLEAN}
                 \cup {Dir(<<"s">>, FALSE, <<>>)}
        second == {Dir(<<"u">>, TRUE, <<f(<<"e", ".", "b", "i", "b">>)>>),
                   Dir(<<"u">>, TRUE, <<Dir(<<"v">>, TRUE, <<f(<<"g", ".", "b", "i", "b">>), f(<<"g", ".", "t", "e", "x">>)>>)>>),
                   Dir(<<"u">>, FALSE, <<>>)}
        file == {f(<<"a", ".", "b", "i", "b">>), f(<<"a", ".", "t", "e", "x">>)}
    IN  {Dir(<<"p", "a", "p", "e", "r">>, TRUE, <<x, y, z>>) :
            x \in first, y \in file, z \in second}
        \cup {Dir(<<"p", "a", "p", "e", "r">>, TRUE, <<z, x, y>>) :
                  x \in first, y \in file, z \in second}
        \cup {Dir(<<"p", "a", "p", "e", "r">>, FALSE, <<>>)}

\* findFiles(directory, extension) has been called: its readdir is under way
InitFind ==
    /\ fs \in FindDirs
    /\ input \in {BibExt, TexExt}
    /\ pc = "listing"
    /\ reads = (<<>> :> [reading |-> TRUE, values |-> <<>>])
    /\ paths = <<>>
    /\ scanned = <<>>
    /\ calls = <<>>
    /\ output = <<>>
    /\ reparsed = <<>>
    /\ lastIndex = 0
    /\ idx = 1
    /\ entriesMap = EmptyMap
    /\ foundBibtex = FALSE
    /\ foundAny = FALSE
    /\ result = <<>>
    /\ db = EmptyDb
    /\ tasks = <<>>
    /\ world = NoWorld

\* One of the readdir calls under way settles, whichever.  scanned keeps
\* the order in which they settled.
ReaddirSettles ==
    /\ pc = "listing"
    /\ \E p \in {q \in DOMAIN reads : reads[q].reading} :
       \E r \in {readdirSettled(fs, reads, p, readdir(dirAt(fs, p)), input)} :
           /\ reads' = r.reads
           /\ paths' = r.files
           /\ pc' = IF r.done THEN "listed" ELSE "listing"
           /\ scanned' = Append(scanned, p)
    /\ UNCHANGED <<fs, input, calls, output, reparsed, lastIndex, idx,
                   entriesMap, foundBibtex, foundAny, result>>
    /\ UNCHANGED pipeVars

NextFind == ReaddirSettles

SpecFind == InitFind /\ [][NextFind]_vars

\* ---------------------------------- paperReferencesInsertMany, step by step
\* The uploaded paper is in the database and paperReferencesInsertMany has
\* been called with its references.
InitPipeline ==
    /\ world \in Worlds
    /\ db = [papers |-> <<UploadedPaper>>, paperReferences |-> <<>>]
    /\ tasks = paperReferencesInsertMany(<<>>, UploadedPaper.id,
                                         world.upload, 0)
    /\ pc = "pipeline"
    /\ fs = Tree(<<>>, "flat")
    /\ paths = <<>>
    /\ idx = 1
    /\ entriesMap = EmptyMap
    /\ foundBibtex = FALSE
    /\ foundAny = FALSE
    /\ result = <<>>
    /\ lastIndex = 0
    /\ scanned = <<>>
    /\ input = <<>>
    /\ output = <<>>
    /\ reparsed = <<>>
    /\ calls = <<>>
    /\ reads = <<>>

\* activation i of processReferenceWithArxivId awaits `at`
Awaits(i, at) ==
    /\ tasks[i].fn = "processReferenceWithArxivId"
    /\ tasks[i].pc = at

\* the catch of processReferenceWithArxivId: the error is logged and null
\* returned
Caught(i, error) ==
    [tasks EXCEPT ![i].pc = "done", ![i].error = error,
                  ![i].returned = nullId]

\* findPaperByArxivId answers: the id of an existing paper is returned, or
\* insertPaperFromArxivId(arxivId, false) is called and fetches the
\* metadata and the PDF
FindPaperSettles(i) ==
    /\ Awaits(i, "findPaperByArxivId")
    /\ \E found \in {findPaperByArxivId(db.papers, tasks[i].arxivId)} :
           IF found = {}
           THEN tasks' = [tasks EXCEPT ![i].pc = "fetch"]
           ELSE \E existingPaper \in found :
                    tasks' = [tasks EXCEPT ![i].pc = "done",
                                           ![i].returned = existingPaper]
    /\ UNCHANGED <<db, world>>

\* arXiv answers the two fetches of insertPaperFromArxivId: with the
\* metadata and one of the files of the PDF, or with an error
ArxivFetched(i) ==
    /\ Awaits(i, "fetch")
    /\ \/ \E pdf \in 1..MaxPdfVersions :
              tasks' = [tasks EXCEPT ![i].pc = "insert", ![i].pdf = pdf]
       \/ tasks' = Caught(i, "arxiv")
    /\ UNCHANGED <<db, world>>

\* the insert into papers: fileHash is unique, so the insert of a file
\* that is there already throws
PaperInserted(i) ==
    /\ Awaits(i, "insert")
    /\ \E fileHash \in {[of |-> tasks[i].arxivId, pdf |-> tasks[i].pdf]} :
           IF \E r \in 1..Len(db.papers) : db.papers[r].fileHash = fileHash
           THEN /\ tasks' = Caught(i, "unique")
                /\ db' = db
           ELSE /\ db' = [db EXCEPT !.papers =
                            Append(@, [id |-> Len(db.papers) + 1,
                                       onlineUrl |->
                                           onlineUrlOf(tasks[i].arxivId),
                                       fileHash |-> fileHash])]
                /\ tasks' = [tasks EXCEPT ![i].pc = "pdfPaperHandling",
                                          ![i].paperId = Len(db.papers) + 1]
    /\ UNCHANGED world

\* pdfPaperHandling({ paper }, false) returns or throws; it inserts no
\* references.  downloadArxivSource is called next.
PdfPaperHandled(i) ==
    /\ Awaits(i, "pdfPaperHandling")
    /\ \/ tasks' = [tasks EXCEPT ![i].pc = "downloadArxivSource"]
       \/ tasks' = Caught(i, "ollama")
    /\ UNCHANGED <<db, world>>

\* downloadArxivSource and paperLaTeXToMarkdown: with the source and its
\* markdown insertPaperFromArxivId returns the paper's id; without the
\* source (else branch) and when the conversion throws (catch) it calls
\* pdfPaperHandling({ paper })
SourceProcessed(i) ==
    /\ Awaits(i, "downloadArxivSource")
    /\ \E outcome \in {"markdown", "no source", "throws"} :
           tasks' = IF outcome = "markdown"
                    THEN [tasks EXCEPT ![i].pc = "done",
                                       ![i].returned = tasks[i].paperId]
                    ELSE [tasks EXCEPT ![i].pc = "fallback",
                                       ![i].caught = outcome = "throws"]
    /\ UNCHANGED <<db, world>>

\* pdfPaperHandling({ paper }), withReferences being true by default: it
\* throws (from the else branch into the catch, which calls it again; from
\* the catch out of insertPaperFromArxivId), or it gets to its references
\* and, the paper having none in the database, calls
\* paperReferencesInsertMany with those the extraction found
FallbackHandled(i) ==
    /\ Awaits(i, "fallback")
    /\ \/ tasks' = IF tasks[i].caught THEN Caught(i, "ollama")
                   ELSE [tasks EXCEPT ![i].caught = TRUE]
       \/ IF \E r \in 1..Len(db.paperReferences) :
                 db.paperReferences[r].paperId = tasks[i].paperId
          THEN tasks' = [tasks EXCEPT ![i].pc = "done",
                                      ![i].returned = tasks[i].paperId]
          ELSE tasks' = paperReferencesInsertMany(
                            [tasks EXCEPT
                                ![i].pc = "paperReferencesInsertMany"],
                            tasks[i].paperId,
                            world.cites[tasks[i].arxivId], i)
    /\ UNCHANGED <<db, world>>

\* the caller of activation i, when there is one, gets the result:
\* pdfPaperHandling returns and insertPaperFromArxivId returns the id
Resumed(ts, i) ==
    IF ts[i].parent = 0 THEN ts
    ELSE [ts EXCEPT ![ts[i].parent].pc = "done",
                    ![ts[i].parent].returned = ts[ts[i].parent].paperId]

\* Promise.all of activation i of paperReferencesInsertMany resolves: the
\* values are inserted and their number returned
ReferencesInserted(i) ==
    /\ tasks[i].fn = "paperReferencesInsertMany"
    /\ tasks[i].pc = "Promise.all"
    /\ \A j \in mapped(tasks, i) : tasks[j].pc = "done"
    /\ db' = [db EXCEPT !.paperReferences = @ \o valuesToInsert(tasks, i)]
    /\ tasks' = Resumed([tasks EXCEPT ![i].pc = "done",
                             ![i].returned = Len(tasks[i].references)], i)
    /\ UNCHANGED world

\* paperReferencesInsertMany returned 0 at once for an empty list: the
\* caller goes on
EmptyListReturned(i) ==
    /\ tasks[i].fn = "paperReferencesInsertMany"
    /\ tasks[i].pc = "done"
    /\ tasks[i].parent # 0
    /\ tasks[tasks[i].parent].pc = "paperReferencesInsertMany"
    /\ tasks' = Resumed(tasks, i)
    /\ UNCHANGED <<db, world>>

NextPipeline ==
    /\ \E i \in 1..Len(tasks) :
           \/ FindPaperSettles(i)
           \/ ArxivFetched(i)
           \/ PaperInserted(i)
           \/ PdfPaperHandled(i)
           \/ SourceProcessed(i)
           \/ FallbackHandled(i)
           \/ ReferencesInserted(i)
           \/ EmptyListReturned(i)
    /\ UNCHANGED <<pc, lastIndex>>
    /\ UNCHANGED callVars
    /\ UNCHANGED parserVars
    /\ UNCHANGED concVars

SpecPipeline == InitPipeline /\ [][NextPipeline]_vars

\* ------------------------------------------------------------ properties
\* the properties of a record other than the one named
SameExcept(a, b, name) ==
    /\ DOMAIN a \ {name} = DOMAIN b \ {name}
    /\ \A n \in DOMAIN a \ {name} : a[n] = b[n]

\* where the scan first parsed an entry with the id
FirstSeen(id) ==
    CHOOSE k \in 1..Len(scanned) :
        /\ scanned[k][PropName.id] = id
        /\ \A j \in 1..(k - 1) : scanned[j][PropName.id] # id

\* the record the first scenario expects for refs.bib
ScenarioRecord ==
    (PropName.id :> <<"d", "o", "e", "2", "0", "2", "0">>)
    @@ (PropName.type :> <<"a", "r", "t", "i", "c", "l", "e">>)
    @@ (PropName.author :> <<"J", "o", "h", "n", " ", "D", "o", "e">>)
    @@ (PropName.title :> <<"A", " ", "S", "t", "u", "d", "y">>)
    @@ (PropName.year :> <<"2", "0", "2", "0">>)
    @@ (PropName.raw_bibtex :> ScenarioBib)

\* C1: for the directory whose only file is refs.bib with the one entry
\* doe2020, extractReferences returns exactly one record: id doe2020, type
\* article, author John Doe, title A Study, year 2020, and raw_bibtex the
\* source text of the entry.
C1_ScenarioYieldsOneRecord ==
    (pc = "done" /\ fs = ScenarioBibDir) => result = <<ScenarioRecord>>

\* a returned entry has the key and every field assignment of an entry of
\* the content
Carries(entry, head, body) ==
    /\ entry[PropName.id] = head.id
    /\ \A n \in DOMAIN body.fields :
           n \in DOMAIN entry /\ entry[n] = body.fields[n]

\* C2: parseBibtexContent returns one entry for every well-formed entry of
\* the content, in source order, the last one (followed by no @) included,
\* and each returned entry has all the field assignments of its entry,
\* whatever letters their values hold.
C2_EveryEntryReturned ==
    \A es \in EntryLists :
        (pc # "call" /\ input = EntryListText(es))
        => /\ Len(output) = Len(es)
           /\ \A k \in 1..Len(es) : Carries(output[k], es[k][1], es[k][2])

\* C3: an @ inside a brace-delimited field value does not end the entry: for
\* an entry with such a value, followed by a top-level @, one entry is
\* returned, with that value and with the field assignments after it.
C3_AtSignInsideValue ==
    \A h \in EntryHeads, b \in EntryBodies :
        (/\ pc # "call"
         /\ \E n \in DOMAIN b.fields : includes(b.fields[n], <<"@">>)
         /\ input = h.text \o b.text \o <<"@">>)
        => /\ Len(output) = 1
           /\ Carries(output[1], h, b)

\* C4: parsing the raw_bibtex of an entry parseBibtexContent returned gives
\* exactly one entry, with the same id and the same fields.
C4_BibtexRoundTrip ==
    pc = "reparsed" =>
        \A k \in 1..Len(output) :
            /\ Len(reparsed[k]) = 1
            /\ SameExcept(reparsed[k][1], output[k], PropName.raw_bibtex)

\* C5: parsing the raw_bibitem of an entry parseLatexBibliographyContent
\* returned, with or without a label, gives exactly one entry, with the same
\* id, the same label and the same fields.
C5_BibitemRoundTrip ==
    pc = "reparsed" =>
        \A k \in 1..Len(output) :
            /\ Len(reparsed[k]) = 1
            /\ SameExcept(reparsed[k][1], output[k], PropName.raw_bibitem)

\* C6: the returned list holds at most one record per id, and the record of
\* an id is the entry parsed last with that id, the files taken in
\* enumeration order and the entries of a file in source order.  (An id that
\* is the accessor name __proto__ gets no record.)
C6_LastWriteWins ==
    pc = "done" =>
        /\ \A i, j \in 1..Len(result) :
               i # j => result[i][PropName.id] # result[j][PropName.id]
        /\ \A i \in 1..Len(result) :
               \E k \in 1..Len(scanned) :
                   /\ scanned[k] = result[i]
                   /\ \A j \in (k + 1)..Len(scanned) :
                          scanned[j][PropName.id] # result[i][PropName.id]
        /\ \A k \in 1..Len(scanned) :
               scanned[k][PropName.id] # PropName.proto
               => \E i \in 1..Len(result) :
                      result[i][PropName.id] = scanned[k][PropName.id]

\* an id was parsed twice, with different records, and the call returned
C6_IdDefinedTwice ==
    /\ pc = "done"
    /\ \E j, k \in 1..Len(scanned) :
           /\ j < k
           /\ scanned[j][PropName.id] = scanned[k][PropName.id]
           /\ scanned[j] # scanned[k]
           /\ \E i \in 1..Len(result) : result[i] = scanned[k]

\* C7: the returned list is ordered by first insertion: a record whose id
\* was first seen earlier in the scan comes earlier in the list, for every
\* pair of citation keys, keys made only of digits included.
C7_FirstInsertionOrder ==
    pc = "done" =>
        \A i, j \in 1..Len(result) :
            i < j => FirstSeen(result[i][PropName.id])
                     < FirstSeen(result[j][PropName.id])

\* C8: .tex files are scanned if and only if the directory tree holds no
\* .bib file: with at least one .bib file the call never turns to the .tex
\* files and returns BibTeX records only, also when every .bib file yields
\* no entry or cannot be read; with none it does turn to them.
C8_TexOnlyWithoutBibFiles ==
    LET bibFiles == findFiles(fs, <<>>, BibExt).files
    IN  /\ pc \in {"awaitTexFiles", "awaitTexRead"} => bibFiles = <<>>
        /\ pc = "done" /\ bibFiles # <<>>
           => \A i \in 1..Len(result) :
                  PropName.raw_bibtex \in DOMAIN result[i]
        /\ pc = "done" /\ bibFiles = <<>>
           => paths = findFiles(fs, <<>>, TexExt).files

\* the directory without the unreadable files of the extensions
RECURSIVE WithoutUnreadable(_, _)
WithoutUnreadable(dir, exts) ==
    LET kept == SelectSeq(dir.entries,
                    LAMBDA e : \/ e.isDir
                               \/ e.ok
                               \/ \A x \in exts : ~endsWith(e.name, x))
    IN  [dir EXCEPT !.entries =
            [k \in 1..Len(kept) |->
                IF kept[k].isDir THEN WithoutUnreadable(kept[k], exts)
                ELSE kept[k]]]

\* C9: a file that cannot be read is skipped and the scan goes on: the call
\* does not reject, and it returns exactly the records it returns for the
\* directory without the unreadable files of the kind it scanned (and
\* without all unreadable files).
C9_UnreadableFilesSkipped ==
    /\ pc # "rejected"
    /\ pc = "done" =>
           LET kind == IF foundBibtex THEN BibExt ELSE TexExt
           IN  /\ result = extractReferences(
                               WithoutUnreadable(fs, {kind})).value
               /\ result = extractReferences(
                               WithoutUnreadable(fs, {BibExt, TexExt})).value

\* the call returned records although a file it scanned could not be read
C9_UnreadableFileAmongScanned ==
    /\ pc = "done"
    /\ result # <<>>
    /\ \E k \in 1..Len(paths) : readFile(fs, paths[k]).threw

\* the directory without the subdirectories that cannot be listed
RECURSIVE ListablePart(_)
ListablePart(dir) ==
    LET kept == SelectSeq(dir.entries, LAMBDA e : ~e.isDir \/ e.ok)
    IN  [dir EXCEPT !.entries =
            [k \in 1..Len(kept) |->
                IF kept[k].isDir THEN ListablePart(kept[k]) ELSE kept[k]]]

\* C10: extractReferences never rejects: it returns the empty list for a
\* directory without .bib and .tex files and for a directory that does not
\* exist or cannot be listed, and the records of the listable part when a
\* subdirectory cannot be listed.
C10_NeverRejects ==
    /\ pc # "rejected"
    /\ pc = "done" =>
           /\ ~fs.ok => result = <<>>
           /\ (\A ext \in {BibExt, TexExt} :
                   findFiles(fs, <<>>, ext).files = <<>>) => result = <<>>
           /\ fs.ok => result = extractReferences(ListablePart(fs)).value

\* the call returned records for a directory with a subdirectory that
\* cannot be listed
C10_UnlistableSubdirectory ==
    /\ pc = "done"
    /\ result # <<>>
    /\ \E k \in 1..Len(fs.entries) :
           fs.entries[k].isDir /\ ~fs.entries[k].ok

\* C11: for the directory whose only file is the .tex file with
\* \bibitem{lee2019} J. Lee. Deep Networks. \newblock In Proceedings of the
\* International Conference on Learning. 2019., the single record returned
\* has author "J. Lee" and title "Deep Networks".
C11_ScenarioAuthorAndTitle ==
    (pc = "done" /\ fs = ScenarioTexDir)
    => /\ Len(result) = 1
       /\ PropName.author \in DOMAIN result[1]
       /\ result[1][PropName.author] = <<"J", ".", " ", "L", "e", "e">>
       /\ PropName.title \in DOMAIN result[1]
       /\ result[1][PropName.title] = <<"D", "e", "e", "p", " ", "N", "e", "t", "w", "o", "r", "k", "s">>

\* C12: for the same directory exactly one record is returned, with id
\* lee2019, no journal, a booktitle that contains "International Conference
\* on Learning", and year 2019.
C12_ScenarioBooktitleAndYear ==
    (pc = "done" /\ fs = ScenarioTexDir)
    => /\ Len(result) = 1
       /\ result[1][PropName.id] = <<"l", "e", "e", "2", "0", "1", "9">>
       /\ PropName.journal \notin DOMAIN result[1]
       /\ PropName.booktitle \in DOMAIN result[1]
       /\ includes(result[1][PropName.booktitle], <<"I", "n", "t", "e", "r", "n", "a", "t", "i", "o", "n", "a", "l", " ", "C", "o", "n", "f", "e", "r", "e", "n", "c", "e", " ", "o", "n", " ", "L", "e", "a", "r", "n", "i", "n", "g">>)
       /\ result[1][PropName.year] = <<"2", "0", "1", "9">>

\* the call on the directory of the second scenario returned a \bibitem
\* record
C12_ScenarioTexScanned ==
    /\ pc = "done"
    /\ fs = ScenarioTexDir
    /\ \E i \in 1..Len(result) : PropName.raw_bibitem \in DOMAIN result[i]

\* C13: every record of a bibitem whose body contains arXiv:2005.14165 has
\* arxiv equal to exactly 2005.14165, whatever text precedes or follows the
\* identifier and whichever other fields match.
C13_ArxivIdentifier ==
    pc # "call" =>
        \A k \in 1..Len(output) :
            includes(output[k][PropName.raw_text], <<"a", "r", "X", "i", "v", ":">> \o ArxivId)
            => output[k][PropName.arxiv] = ArxivId

\* C14: the pages value of every record returned by a parser holds no en
\* dash and no em dash: each is replaced by an ASCII hyphen, so that the
\* range 123-125 written with either dash gives "123-125".
C14_PagesWithoutDashes ==
    pc # "call" =>
        /\ \A k \in 1..Len(output) :
               PropName.pages \in DOMAIN output[k]
               => \A j \in 1..Len(output[k][PropName.pages]) :
                      output[k][PropName.pages][j] \notin Dashes
        /\ \A h \in EntryHeads, b \in NamedFieldBodies :
               (PropName.pages \in DOMAIN b.fields
                /\ input = h.text \o b.text \o <<"@">>)
               => /\ Len(output) = 1
                  /\ PropName.pages \in DOMAIN output[1]
                  /\ output[1][PropName.pages] = <<"1", "2", "3", "-", "1", "2", "5">>

\* a string without leading or trailing whitespace and without two
\* whitespace characters in a row
Collapsed(s) ==
    /\ s # <<>> => s[1] \notin Space /\ s[Len(s)] \notin Space
    /\ \A k \in 1..(Len(s) - 1) : ~(s[k] \in Space /\ s[k + 1] \in Space)

\* C15: cleanBibtexValue applies its steps in the order \&, umlaut escapes,
\* braced acute escapes, $...$, one pass of braces, whitespace: it maps
\* {\"u}ber to the word with u-umlaut and \'{e}toile to the word with
\* e-acute, strips one level of braces only, returns the empty value
\* unchanged, and returns for every other value a string without leading or
\* trailing whitespace and without a run of two whitespace characters.
C15_CleanBibtexValue ==
    pc # "call" =>
        /\ input = UmlautExample => output = <<"&uuml;", "b", "e", "r">>
        /\ input = AcuteExample
           => output = <<"&eacute;", "t", "o", "i", "l", "e">>
        /\ input = <<"{", "{", "x", "}", "}">> => output = <<"{", "x", "}">>
        /\ input = <<>> => output = <<>>
        /\ Collapsed(output)

\* a value with whitespace at an end or in a run was cleaned
C15_ValueWithWhitespaceCleaned ==
    /\ pc # "call"
    /\ ~Collapsed(input)
    /\ output # <<>>

C17_ConcurrentCallsIndependent ==
    \A i \in DOMAIN calls :
        /\ calls[i].pc # "rejected"
        /\ calls[i].pc = "done"
           => calls[i].result = extractReferences(calls[i].fs).value

\* a call returned \bibitem records while the other call, in the middle of
\* its loop over texFiles, had parsed \bibitem entries of its own
C17_ReturnedWhileOtherScans ==
    \E i, j \in DOMAIN calls :
        /\ i # j
        /\ calls[i].pc = "done"
        /\ \E k \in 1..Len(calls[i].result) :
               PropName.raw_bibitem \in DOMAIN calls[i].result[k]
        /\ calls[j].pc = "awaitTexRead"
        /\ calls[j].idx > 1
        /\ calls[j].entriesMap # EmptyMap

\* path p leads to the directory of path q or into it
Below(q, p) == Len(q) <= Len(p) /\ SubSeq(p, 1, Len(q)) = q

\* C18: findFiles reads the subdirectories concurrently, and whatever the
\* order in which the reads settle it returns the same list: the entries in
\* listing order, the files of a subdirectory at the place of the
\* subdirectory.
C18_FindFilesDeterministic ==
    pc = "listed" => paths = findFiles(fs, <<>>, input).files

\* findFiles returned although a subdirectory settled before one whose
\* files come earlier in the list
C18_SettledOutOfOrder ==
    /\ pc = "listed"
    /\ \E i, j \in 1..Len(scanned) :
           /\ i < j
           /\ \E a, b \in 1..Len(paths) :
                  /\ a < b
                  /\ Below(scanned[j], paths[a]) /\ ~Below(scanned[i], paths[a])
                  /\ Below(scanned[i], paths[b]) /\ ~Below(scanned[j], paths[b])

\* the TYPE token of an entry head, lowercased
HeadType(h) ==
    toLowerCase(SubSeq(h.text, 2,
        (CHOOSE k \in 1..Len(h.text) : h.text[k] = "{") - 1))

\* s begins with t
StartsWith(s, t) == Len(t) <= Len(s) /\ SubSeq(s, 1, Len(t)) = t

\* C19: the type of every entry parseBibtexContent returns is the lowercased
\* TYPE token and its id the trimmed KEY of the source entry (the ones its
\* raw_bibtex starts with), whatever the names of the fields in the body,
\* type and id included, and the type is never empty.
C19_TypeAndIdFromHeader ==
    pc # "call" =>
        /\ \A k \in 1..Len(output) :
               /\ output[k][PropName.type] # <<>>
               /\ StartsWith(output[k][PropName.raw_bibtex],
                      <<"@">> \o output[k][PropName.type] \o <<"{">>
                      \o output[k][PropName.id] \o <<",", " ">>)
        /\ \A h \in EntryHeads, b \in EntryBodies \cup NamedFieldBodies :
               input = h.text \o b.text \o <<"@">>
               => /\ Len(output) = 1
                  /\ output[1][PropName.type] = HeadType(h)
                  /\ output[1][PropName.id] = h.id

\* the patterns of each field of a \bibitem record
FieldPatterns ==
    (PropName.year :> <<yearPattern>>)
    @@ (PropName.volume :> <<volumePattern>>)
    @@ (PropName.number :> <<numberPattern>>)
    @@ (PropName.pages :> <<pagesPattern>>)
    @@ (PropName.doi :> doiPatterns)
    @@ (PropName.url :> urlPatterns)
    @@ (PropName.arxiv :> arxivPatterns)
    @@ (PropName.journal :> journalPatterns)
    @@ (PropName.booktitle :> booktitlePatterns)
    @@ (PropName.publisher :> publisherPatterns)
    @@ (PropName.address :> addrPatterns)

\* C20: when none of the patterns of a field (year, volume, number, pages,
\* doi, url, arxiv, journal, booktitle, publisher, address) matches the text
\* of a bibitem, the record parseLatexBibliographyContent returns has no
\* key of that name: the field is absent, not present with the value
\* undefined.
C20_UnmatchedFieldsAbsent ==
    pc # "call" =>
        \A k \in 1..Len(output) :
            \A n \in DOMAIN FieldPatterns :
                (\A j \in 1..Len(FieldPatterns[n]) :
                     ~Exec(FieldPatterns[n][j],
                           output[k][PropName.raw_text], 1).ok)
                => n \notin DOMAIN output[k]

\* the index of the last assignment of a body to the name, in any letter
\* case, of its i-th assignment
LastOf(fields, i) ==
    CHOOSE j \in 1..Len(fields) :
        /\ toLowerCase(fields[j][1]) = toLowerCase(fields[i][1])
        /\ \A k \in (j + 1)..Len(fields) :
               toLowerCase(fields[k][1]) # toLowerCase(fields[i][1])

\* C21: within one BibTeX entry the record has, besides id, type and
\* raw_bibtex, exactly the lowercased names of the entry's fields, and under
\* each name the value of the last field of that name in source order, in
\* whatever letter case the name was written; the last field is captured
\* with no comma after it.
C21_LastFieldOfANameWins ==
    pc # "call" =>
        \A h \in EntryHeads, b \in DupBodies :
            input = h.text \o b.text \o <<"@">>
            => /\ Len(output) = 1
               /\ DOMAIN output[1] =
                      {PropName.id, PropName.type, PropName.raw_bibtex}
                      \cup {toLowerCase(b.fields[i][1]) :
                                i \in 1..Len(b.fields)}
               /\ \A i \in 1..Len(b.fields) :
                      output[1][toLowerCase(b.fields[i][1])]
                      = b.fields[LastOf(b.fields, i)][2]

\* an entry with the fields Title and title, in this order, was parsed
C21_NameInTwoCasesParsed ==
    /\ pc = "returned"
    /\ \E h \in EntryHeads :
           input = h.text \o <<"T", "i", "t", "l", "e", " ", "=", " ", "{", "A", "}", ",", " ", "t", "i", "t", "l", "e", " ", "=", " ", "{", "B", "}", "}">> \o <<"@">>
    /\ Len(output) = 1
    /\ output[1][PropName.title] = <<"B">>

\* C22: a double-quote-delimited value is captured up to the closing quote
\* of the field and then normalized: an author written with the umlaut
\* escape \"u inside the value is Müller in the record, as it is for the
\* brace-delimited value.
C22_QuotedValueWithUmlaut ==
    pc # "call" =>
        \A h \in EntryHeads, b \in UmlautBodies :
            input = h.text \o b.text \o <<"@">>
            => /\ Len(output) = 1
               /\ PropName.author \in DOMAIN output[1]
               /\ output[1][PropName.author] = b.author

\* the commands that delimit the items of a bibliography
BibitemCommand == <<"\\", "b", "i", "b", "i", "t", "e", "m">>

EndMarker == <<"\\", "e", "n", "d", "{", "t", "h", "e", "b", "i", "b", "l", "i", "o", "g", "r", "a", "p", "h", "y", "}">>

\* the least position from `from` on at which t occurs in s, 0 when none
IndexOf(s, t, from) ==
    LET at == {p \in from..(Len(s) - Len(t) + 1) :
                  SubSeq(s, p, p + Len(t) - 1) = t}
    IN  IF at = {} THEN 0 ELSE CHOOSE p \in at : \A q \in at : p <= q

\* The items of a bibliography read from position `from` on: for each
\* \bibitem followed at once by an optional [label] and then {citekey},
\* the label, the citekey and the text up to the next \bibitem, the
\* \end{thebibliography} or the end of the content.
RECURSIVE Items(_, _)
Items(content, from) ==
    LET p == IndexOf(content, BibitemCommand, from)
        q == p + Len(BibitemCommand)
        close == IF q <= Len(content) /\ content[q] = "["
                 THEN IndexOf(content, <<"]">>, q + 1) ELSE 0
        open == IF close # 0 THEN close + 1 ELSE q
        shut == IF open <= Len(content) /\ content[open] = "{"
                THEN IndexOf(content, <<"}">>, open + 1) ELSE 0
        nextItem == IndexOf(content, BibitemCommand, shut + 1)
        nextEnd == IndexOf(content, EndMarker, shut + 1)
        stop == IF nextItem # 0 /\ (nextEnd = 0 \/ nextItem < nextEnd)
                THEN nextItem
                ELSE IF nextEnd # 0 THEN nextEnd ELSE Len(content) + 1
    IN  IF p = 0 THEN <<>>
        ELSE IF shut = 0 THEN Items(content, p + 1)
        ELSE <<[label |-> IF close # 0
                          THEN SubSeq(content, q + 1, close - 1) ELSE <<>>,
                citeKey |-> SubSeq(content, open + 1, shut - 1),
                body |-> SubSeq(content, shut + 1, stop - 1)]>>
             \o Items(content, stop)

\* C23: parseLatexBibliographyContent returns, in source order, one entry
\* for each \bibitem followed at once by an optional [label] and then
\* {citekey}; the text of an entry is the text up to the next \bibitem,
\* the \end{thebibliography} or the end of the content and holds none of
\* the two commands; id is the trimmed citekey, empty for \bibitem{}, and
\* label, the trimmed label, is there only for a label that is not empty.
C23_OneEntryPerBibitem ==
    pc # "call" =>
        \E items \in {Items(input, 1)} :
            /\ Len(output) = Len(items)
            /\ \A k \in 1..Len(output) :
                   /\ output[k][PropName.id] = trim(items[k].citeKey)
                   /\ output[k][PropName.raw_text] = collapse(items[k].body)
                   /\ ~includes(output[k][PropName.raw_text], BibitemCommand)
                   /\ ~includes(output[k][PropName.raw_text], EndMarker)
                   /\ PropName.label \in DOMAIN output[k]
                      <=> items[k].label # <<>>
                   /\ items[k].label # <<>>
                      => output[k][PropName.label] = trim(items[k].label)

\* \bibitem[]{} and a labelled \bibitem before \end{thebibliography}
\* gave two entries, the first with an empty id and no label
C23_EmptyKeyThenLabelThenEnd ==
    /\ pc = "returned"
    /\ includes(input, EndMarker)
    /\ Len(output) = 2
    /\ output[1][PropName.id] = <<>>
    /\ PropName.label \notin DOMAIN output[1]
    /\ PropName.label \in DOMAIN output[2]
    /\ output[2][PropName.label] = <<"L">>
    /\ output[2][PropName.id] = <<"j">>

\* s with each run of whitespace replaced by one space
RECURSIVE Squeeze(_)
Squeeze(s) ==
    IF s = <<>> THEN <<>>
    ELSE IF Head(s) \notin Space THEN <<Head(s)>> \o Squeeze(Tail(s))
    ELSE IF Tail(s) # <<>> /\ Head(Tail(s)) \in Space THEN Squeeze(Tail(s))
    ELSE <<" ">> \o Squeeze(Tail(s))

NewblockCommand == <<"\\", "n", "e", "w", "b", "l", "o", "c", "k">>

\* the pieces of s from position `from` on, s split at every \newblock
\* and at every line break
RECURSIVE Pieces(_, _)
Pieces(s, from) ==
    LET nl == IndexOf(s, <<"\n">>, from)
        nb == IndexOf(s, NewblockCommand, from)
    IN  IF nl = 0 /\ nb = 0 THEN <<SubSeq(s, from, Len(s))>>
        ELSE IF nb = 0 \/ (nl # 0 /\ nl < nb)
        THEN <<SubSeq(s, from, nl - 1)>> \o Pieces(s, nl + 1)
        ELSE <<SubSeq(s, from, nb - 1)>>
             \o Pieces(s, nb + Len(NewblockCommand))

\* the logical lines of a text: its pieces trimmed, the empty ones left out
LogicalLines(s) ==
    LET ps == Pieces(s, 1)
    IN  SelectSeq([k \in 1..Len(ps) |-> trim(ps[k])], LAMBDA l : l # <<>>)

\* a line without its last character when that is a period
WithoutPeriod(l) ==
    IF l[Len(l)] = "." THEN SubSeq(l, 1, Len(l) - 1) ELSE l

\* C24: for every bibitem, raw_text is its text with each whitespace run
\* replaced by one space and trimmed; author is the first logical line and
\* title the second (the non-empty trimmed pieces of the text split at
\* \newblock and at line breaks), each without one trailing period; title
\* is absent when there is one logical line only, and author too when
\* there is none.
C24_RawTextAuthorTitle ==
    pc # "call" =>
        \E items \in {Items(input, 1)} :
            /\ Len(output) = Len(items)
            /\ \A k \in 1..Len(output) :
                   \E lines \in {LogicalLines(items[k].body)} :
                       /\ output[k][PropName.raw_text]
                          = trim(Squeeze(items[k].body))
                       /\ PropName.author \in DOMAIN output[k]
                          <=> Len(lines) > 0
                       /\ PropName.title \in DOMAIN output[k]
                          <=> Len(lines) > 1
                       /\ Len(lines) > 0
                          => output[k][PropName.author]
                             = WithoutPeriod(lines[1])
                       /\ Len(lines) > 1
                          => output[k][PropName.title]
                             = WithoutPeriod(lines[2])

\* a text of three logical lines, the first ending with two periods, was
\* parsed
C24_ThreeLinesParsed ==
    /\ pc = "returned"
    /\ Len(output) = 1
    /\ Len(LogicalLines(Items(input, 1)[1].body)) = 3
    /\ PropName.author \in DOMAIN output[1]
    /\ output[1][PropName.author] = <<"A", ".", " ", " ", "B", "e", "e", ".">>
    /\ output[1][PropName.title] = <<"T", ".", "\t", "2", "0", "1", "9">>

\* the patterns of a list that match the text, by their place in the list
Matching(ps, text) == {j \in 1..Len(ps) : Exec(ps[j], text, 1).ok}

\* the trimmed capture of the pattern of the list that matches the text
\* and has the least place in the list
CaptureOfFirst(ps, text) ==
    LET j == CHOOSE j \in Matching(ps, text) :
                 \A i \in Matching(ps, text) : j <= i
    IN  trim(Group(text, Exec(ps[j], text, 1), 1))

\* C25: journal is the trimmed capture of the pattern that comes first in
\* the list among those that match raw_text, wherever in the text the
\* patterns match, and there is no journal when none matches: a text with
\* \emph{A} and then \textit{B} has journal B.
C25_JournalByPatternOrder ==
    pc # "call" =>
        /\ \A k \in 1..Len(output) :
               \E text \in {output[k][PropName.raw_text]} :
                   IF Matching(journalPatterns, text) = {}
                   THEN PropName.journal \notin DOMAIN output[k]
                   ELSE /\ PropName.journal \in DOMAIN output[k]
                        /\ output[k][PropName.journal]
                           = CaptureOfFirst(journalPatterns, text)
        /\ input = <<"\\", "b", "i", "b", "i", "t", "e", "m", "{", "k", "}", " ", "\\", "e", "m", "p", "h", "{", "A", "}", " ", "a", "n", "d", " ", "\\", "t", "e", "x", "t", "i", "t", "{", "B", "}", ".">>
           => Len(output) = 1 /\ output[1][PropName.journal] = <<"B">>

\* a text with \emph{A} before \textit{B} was parsed
C25_EmphBeforeTextit ==
    /\ pc = "returned"
    /\ Len(output) = 1
    /\ output[1][PropName.raw_text] = <<"\\", "e", "m", "p", "h", "{", "A", "}", " ", "a", "n", "d", " ", "\\", "t", "e", "x", "t", "i", "t", "{", "B", "}", ".">>
    /\ PropName.journal \in DOMAIN output[1]

\* C26: booktitle is looked for only when no journal pattern matched: no
\* entry parseLatexBibliographyContent returns has both a journal key and
\* a booktitle key, also when the capture of the journal pattern is blank.
C26_JournalExcludesBooktitle ==
    pc # "call" =>
        \A k \in 1..Len(output) :
            ~(/\ PropName.journal \in DOMAIN output[k]
              /\ PropName.booktitle \in DOMAIN output[k])

\* C27: when no journal is found and the text has no `In proceedings of
\* the` phrase, a capitalized phrase that holds Conference, Symposium or
\* Workshop is the booktitle of the entry, whether or not the word In
\* comes before the phrase.
C27_ConferencePhraseIsBooktitle ==
    pc # "call" =>
        \A c \in ConferenceTexts :
            input = <<"\\", "b", "i", "b", "i", "t", "e", "m", "{", "k", "}", " ">> \o c.text
            => /\ Len(output) = 1
               /\ PropName.journal \notin DOMAIN output[1]
               /\ PropName.booktitle \in DOMAIN output[1]
               /\ output[1][PropName.booktitle] = c.phrase

TextitCommand == <<"\\", "t", "e", "x", "t", "i", "t", "{">>

\* the text of the first \textit{ group of a text (up to the first }, or
\* to the end when the group is left open)
FirstTextit(text) ==
    LET p == IndexOf(text, TextitCommand, 1)
        shut == IndexOf(text, <<"}">>, p + Len(TextitCommand))
    IN  [found |-> p # 0,
         closed |-> p # 0 /\ shut # 0,
         content |-> IF p = 0 THEN <<>>
                     ELSE SubSeq(text, p + Len(TextitCommand),
                                 IF shut = 0 THEN Len(text) ELSE shut - 1)]

\* the command written at position p of the text
CommandAt(text, p) ==
    SubSeq(text, p, p + Len(TextitCommand) - 1)

\* a group that starts at p holds the word book, in any letter case,
\* before any closing brace
BookGroupAt(text, p) ==
    /\ p + Len(TextitCommand) - 1 <= Len(text)
    /\ \E b \in (p + Len(TextitCommand))..(Len(text) - 3) :
           /\ toLowerCase(SubSeq(text, b, b + 3)) = <<"b", "o", "o", "k">>
           /\ \A j \in (p + Len(TextitCommand))..b : text[j] # "}"

\* a \textit{ with the word book that is left open
OpenBookGroup(text) ==
    \E p \in 1..Len(text) :
        /\ BookGroupAt(text, p)
        /\ CommandAt(text, p) = TextitCommand
        /\ \A j \in p..Len(text) : text[j] # "}"

\* a group with the word book whose command is \textit in another letter
\* case
OtherCaseBookGroup(text) ==
    \E p \in 1..Len(text) :
        /\ BookGroupAt(text, p)
        /\ CommandAt(text, p) # TextitCommand
        /\ toLowerCase(CommandAt(text, p)) = TextitCommand

BibitemTypes == {<<"b", "i", "b", "i", "t", "e", "m">>, <<"b", "o", "o", "k">>}

\* C28 as stated: the type of a bibitem record is bibitem or book; it is
\* bibitem when the first \textit{...} group of the text is closed and
\* not blank; and it is book only with a \textit{ holding book that is
\* left open, or after a blank first group.
C28_BookOnlyFromOpenGroup ==
    pc # "call" =>
        \A k \in 1..Len(output) :
            \E text \in {output[k][PropName.raw_text]} :
                /\ output[k][PropName.type] \in BibitemTypes
                /\ FirstTextit(text).closed
                   /\ trim(FirstTextit(text).content) # <<>>
                   => output[k][PropName.type] = <<"b", "i", "b", "i", "t", "e", "m">>
                /\ output[k][PropName.type] = <<"b", "o", "o", "k">>
                   => \/ OpenBookGroup(text)
                      \/ /\ FirstTextit(text).closed
                         /\ trim(FirstTextit(text).content) = <<>>

\* C28, amended: the type of a bibitem record is bibitem or book; it is
\* bibitem when the first \textit{...} group of the text is closed and
\* not blank; and it is book only with a \textit{ holding book that is
\* left open, or after a blank first group, or with a group holding book
\* whose command is written in another letter case (\Textit{...}), which
\* the case-insensitive book pattern matches and no journal pattern does.
C28_BookOnlyWithoutJournalGroup ==
    pc # "call" =>
        \A k \in 1..Len(output) :
            \E text \in {output[k][PropName.raw_text]} :
                /\ output[k][PropName.type] \in BibitemTypes
                /\ FirstTextit(text).closed
                   /\ trim(FirstTextit(text).content) # <<>>
                   => output[k][PropName.type] = <<"b", "i", "b", "i", "t", "e", "m">>
                /\ output[k][PropName.type] = <<"b", "o", "o", "k">>
                   => \/ OpenBookGroup(text)
                      \/ /\ FirstTextit(text).closed
                         /\ trim(FirstTextit(text).content) = <<>>
                      \/ OtherCaseBookGroup(text)

\* a text whose first \textit group is closed and holds the word book
\* was parsed: the group is the journal
C28_ClosedBookGroupParsed ==
    /\ pc = "returned"
    /\ Len(output) = 1
    /\ FirstTextit(output[1][PropName.raw_text]).closed
    /\ FirstTextit(output[1][PropName.raw_text]).content = <<"M", "y", " ", "B", "o", "o", "k">>
    /\ PropName.journal \in DOMAIN output[1]
    /\ output[1][PropName.journal] = <<"M", "y", " ", "B", "o", "o", "k">>

\* ---- C29
\* the activations of paperReferencesInsertMany made for a paper that
\* insertPaperFromArxivId inserted
ForInsertedPaper ==
    {i \in 1..Len(tasks) : /\ tasks[i].fn = "paperReferencesInsertMany"
                           /\ tasks[i].parent # 0}

\* C29: a paper inserted because a reference carries its arXiv id never has
\* its own references processed: paperReferencesInsertMany is called for
\* the uploaded paper only, on every path through
\* insertPaperFromArxivId(id, false), those of a failed source download
\* and of a thrown error included.
C29_InsertedPaperKeepsItsReferences ==
    ForInsertedPaper = {}

\* ---- C30
\* the call of paperReferencesInsertMany for the uploaded paper has
\* completed, and no call it made met an error of arXiv or of the
\* extraction service
UploadCompleted ==
    /\ tasks[1].pc = "done"
    /\ \A j \in mapped(tasks, 1) : tasks[j].error \in {"none", "unique"}

\* the pairs of references of the uploaded paper with the same arXiv id
SameArxivId ==
    {p \in (1..Len(world.upload)) \X (1..Len(world.upload)) :
        /\ p[1] < p[2]
        /\ findArxivIdInReference(world.upload[p[1]]) # <<>>
        /\ findArxivIdInReference(world.upload[p[1]])
               = findArxivIdInReference(world.upload[p[2]])}

\* the rows of papers for an arXiv id
PaperRows(arxivId) ==
    {r \in 1..Len(db.papers) : includes(db.papers[r].onlineUrl, arxivId)}

\* C30: when two references of the list carry the same arXiv id and no
\* paper with that id is in the database, then after
\* paperReferencesInsertMany has completed there is exactly one row of
\* papers for that id and both rows of paper_references have its id as
\* referencePaperId.
C30_OnePaperForTwoReferences ==
    UploadCompleted =>
        \A p \in SameArxivId :
            \E r \in 1..Len(db.papers) :
                /\ PaperRows(findArxivIdInReference(world.upload[p[1]]))
                       = {r}
                /\ db.paperReferences[p[1]].referencePaperId
                       = db.papers[r].id
                /\ db.paperReferences[p[2]].referencePaperId
                       = db.papers[r].id

====
